---- MODULE Spec2Model ----
(***************************************************************************)
(* Model of the OBI protocol admission engine of obinexus/obibuf-poc:      *)
(* the USCN normalizer (obi_uscn_normalize), the canonical-equivalence     *)
(* predicate (obi_validate_canonical_equivalence) and the DFA recognition  *)
(* loop (obi_dfa_process_input), all of obiprotocol/include/obiprotocol.h. *)
(*                                                                         *)
(* Bytes are their integer codes.  Offsets (input_pos, output_pos, pos)    *)
(* are 0-based as in the C source; sequences are 1-based, so the byte at   *)
(* offset p of a buffer b is b[p + 1].                                     *)
(***************************************************************************)
EXTENDS Integers, Sequences, FiniteSets, TLC

(***************************************************************************)
(* Bounds of the model.                                                    *)
(***************************************************************************)

\* The canonical buffer holds 8192 bytes in the source (obiprotocol.h:59).
\* The model scales it down so that the bounded inputs reach and exceed the
\* capacity; every use of the size below is relative to this definition.
OBI_CANONICAL_BUFFER_SIZE == 8

\* An input of the normalizer harness is a concatenation of at most this many
\* chunks of UscnChunks.
MaxChunks == 2

\* An input of the equivalence harness is a concatenation of at most this many
\* chunks of EquivChunks.
MaxEquivChunks == 1

\* An input of the engine harness is a non-empty concatenation of at most
\* this many chunks of EngineChunks.
MaxEngineChunks == 2

\* A caller registers at most this many patterns after obi_dfa_initialize.
MaxRegistrations == 2

\* An engine serves at most this many obi_dfa_process_input calls.
MaxAdmissions == 2

\* A client of the protocol-state-validation feature makes at most this
\* many calls, with buffers of at most MaxDataLength bytes.
MaxFeatureCalls == 3
MaxDataLength == 2
\* The calls the client of the layer API makes.
MaxLayerCalls == 4
\* The argc the command-line interface is started with.
MaxArgc == 4
\* The chunks of an input of one of two threads admitting concurrently.
MaxPairChunks == 1

(***************************************************************************)
(* Constants of the program.                                               *)
(***************************************************************************)
OBI_MAX_STATES == 256

\* warning_threshold: 0.6 of the serialized specification, in thousandths:
\* above it lies the governance zone.
warning_threshold == 600

\* cost_threshold: 0.5 of the serialized specification, in thousandths.
cost_threshold == 500

\* OBI_MAX_TRANSITIONS
OBI_MAX_TRANSITIONS == 1024

\* OBI_CANONICAL_BUFFER_SIZE as the source defines it, for the admission of
\* a message of the protocol at its full length.
SOURCE_CANONICAL_BUFFER_SIZE == 8192

(***************************************************************************)
(* Bytes and byte strings.                                                 *)
(***************************************************************************)

\* Character codes of the characters the model writes literally.
Ord ==
    [c \in {"%", ".", "/", " ", "\t", "\n", "\r", ":", "|", "-",
            "0", "2", "3", "7", "9", "A", "B", "C", "E", "F", "I", "L", "O",
            "P", "R", "T", "a", "c", "e", "f",
            "1", "5", "D", "H", "M", "S", "U", "Y", "_",
            "g", "h", "l", "m", "o", "s"} |->
        CASE c = "1" -> 49   [] c = "5" -> 53   [] c = "D" -> 68
          [] c = "H" -> 72   [] c = "M" -> 77   [] c = "S" -> 83
          [] c = "U" -> 85   [] c = "Y" -> 89   [] c = "_" -> 95
          [] c = "g" -> 103  [] c = "h" -> 104  [] c = "l" -> 108
          [] c = "m" -> 109  [] c = "o" -> 111  [] c = "s" -> 115
          [] c = "\t" -> 9   [] c = "\n" -> 10  [] c = "\r" -> 13
          [] c = " "  -> 32  [] c = "%"  -> 37  [] c = "-"  -> 45
          [] c = "."  -> 46  [] c = "/"  -> 47  [] c = "0"  -> 48
          [] c = "2"  -> 50  [] c = "3"  -> 51  [] c = "7"  -> 55
          [] c = "9"  -> 57  [] c = ":"  -> 58  [] c = "A"  -> 65
          [] c = "B"  -> 66  [] c = "C"  -> 67  [] c = "E"  -> 69
          [] c = "F"  -> 70  [] c = "I"  -> 73  [] c = "L"  -> 76
          [] c = "O"  -> 79  [] c = "P"  -> 80  [] c = "R"  -> 82
          [] c = "T"  -> 84  [] c = "a"  -> 97  [] c = "c"  -> 99
          [] c = "e"  -> 101 [] c = "f"  -> 102 [] c = "|"  -> 124]

\* The byte string of a tuple of characters.
Bytes(cs) == [i \in 1..Len(cs) |-> Ord[cs[i]]]

\* F applied to the value of x, with x evaluated once.
Eager(x, F(_)) == CHOOSE r \in {F(v) : v \in {x}} : TRUE

Min(S) == CHOOSE x \in S : \A y \in S : x <= y
Max(S) == CHOOSE x \in S : \A y \in S : x >= y

\* size_t x - 1: the subtraction wraps to SIZE_MAX at x = 0.  SIZE_MAX is
\* beyond every offset of the model, so any value above them stands for it.
SizeDec(x) == IF x = 0 THEN 2147483647 ELSE x - 1

(***************************************************************************)
(* uscn_encoding_map: the table of (encoded form, canonical form) rewrites,*)
(* in table order, with the lengths the table states.                      *)
(***************************************************************************)
Mapping(enc, can, elen, clen) ==
    [encoded_form |-> Bytes(enc), canonical_form |-> Bytes(can),
     encoded_len |-> elen, canonical_len |-> clen]

uscn_encoding_map ==
    << Mapping(<<"%","2","e","%","2","e","%","2","f">>, <<".",".","/">>, 9, 3),
       Mapping(<<"%","c","0","%","a","f">>,             <<".",".","/">>, 6, 3),
       Mapping(<<".","%","2","e","/">>,                 <<".",".","/">>, 5, 3),
       Mapping(<<"%","2","e","%","2","e","/">>,         <<".",".","/">>, 7, 3),
       Mapping(<<"%","2","f">>,                         <<"/">>,         3, 1),
       Mapping(<<"%","2","e">>,                         <<".">>,         3, 1),
       Mapping(<<"%","2","0">>,                         <<" ">>,         3, 1),
       Mapping(<<"%","c","0","%","a","e">>,             <<".">>,         6, 1),
       Mapping(<<"%","c","0","%","a","f">>,             <<"/">>,         6, 1),
       Mapping(<<"%","3","A">>,                         <<":">>,         3, 1),
       Mapping(<<"%","7","C">>,                         <<"|">>,         3, 1) >>

(***************************************************************************)
(* obi_uscn_normalize, phase 1: encoding substitution.                     *)
(***************************************************************************)

\* input_pos + encoded_len <= input_len && memcmp(input + input_pos,
\* encoded_form, encoded_len) == 0
MappingMatches(input, input_len, input_pos, m) ==
    /\ input_pos + m.encoded_len <= input_len
    /\ \A j \in 1..m.encoded_len : input[input_pos + j] = m.encoded_form[j]

\* Fault: the canonical form may end one byte further.
MappingFitsOffByOne(output_pos, m, max_output) ==
    output_pos + m.canonical_len <= max_output

\* output_pos + canonical_len < max_output
MappingFits(output_pos, m, max_output) ==
    output_pos + m.canonical_len < max_output

\* Fault: the loop does not stop at the first entry, the last one wins.
SelectMappingLast(input, input_len, input_pos, output_pos, max_output) ==
    LET ok == {k \in 1..Len(uscn_encoding_map) :
                  /\ MappingMatches(input, input_len, input_pos,
                                    uscn_encoding_map[k])
                  /\ MappingFits(output_pos, uscn_encoding_map[k], max_output)}
    IN  IF ok = {} THEN 0 ELSE Max(ok)

\* The for loop over the table: the first entry, in table order, that matches
\* at input_pos and whose canonical form fits; 0 when the loop ends unmapped.
SelectMapping(input, input_len, input_pos, output_pos, max_output) ==
    LET ok == {k \in 1..Len(uscn_encoding_map) :
                  /\ MappingMatches(input, input_len, input_pos,
                                    uscn_encoding_map[k])
                  /\ MappingFits(output_pos, uscn_encoding_map[k], max_output)}
    IN  IF ok = {} THEN 0 ELSE Min(ok)

\* The while condition of phase 1; out holds the output_pos bytes written.
Phase1Cond(input_len, max_output, input_pos, out) ==
    input_pos < input_len /\ Len(out) < SizeDec(max_output)

\* One iteration of the while loop of phase 1.
Phase1Iter(input, input_len, max_output, input_pos, out) ==
    LET k == SelectMapping(input, input_len, input_pos, Len(out), max_output)
    IN  IF k # 0
        THEN [input_pos |-> input_pos + uscn_encoding_map[k].encoded_len,
              out |-> out \o SubSeq(uscn_encoding_map[k].canonical_form, 1,
                                    uscn_encoding_map[k].canonical_len),
              mapping |-> k]
        ELSE [input_pos |-> input_pos + 1,
              out |-> Append(out, input[input_pos + 1]),
              mapping |-> 0]

\* The while loop of phase 1 from the point s = (input_pos, out), for at most
\* n more iterations.  (The iterations are run half by half, which keeps the
\* evaluation shallow on long inputs.)
RECURSIVE Phase1Run(_, _, _, _, _)
Phase1Run(input, input_len, max_output, s, n) ==
    IF n <= 0 \/ ~Phase1Cond(input_len, max_output, s.input_pos, s.out)
    THEN s
    ELSE IF n = 1
         THEN Phase1Iter(input, input_len, max_output, s.input_pos, s.out)
         ELSE Eager(Phase1Run(input, input_len, max_output, s, n \div 2),
                    LAMBDA t : Phase1Run(input, input_len, max_output, t,
                                         n - (n \div 2)))

\* The while loop of phase 1 run to its end: every iteration consumes at
\* least one input byte, so input_len - input_pos iterations end it.
Phase1(input, input_len, max_output, input_pos, out) ==
    Phase1Run(input, input_len, max_output,
              [input_pos |-> input_pos, out |-> out],
              input_len - input_pos).out

(***************************************************************************)
(* Phase 2: case normalization, unless the context is case sensitive.      *)
(***************************************************************************)
Phase2(out, case_sensitive) ==
    IF case_sensitive
    THEN out
    ELSE [i \in 1..Len(out) |->
             IF out[i] >= Ord["A"] /\ out[i] <= Ord["A"] + 25
             THEN out[i] + 32 ELSE out[i]]

(***************************************************************************)
(* Phase 3: whitespace normalization, in place on the output buffer.       *)
(***************************************************************************)
IsWhitespace(b) ==
    b = Ord[" "] \/ b = Ord["\t"] \/ b = Ord["\n"] \/ b = Ord["\r"]

\* Fault: the first byte of a run is kept as it is, not written as a space.
Phase3IterKeepByte(buf, i, write_pos, in_whitespace) ==
    IF IsWhitespace(buf[i + 1])
    THEN IF ~in_whitespace
         THEN [buf |-> [buf EXCEPT ![write_pos + 1] = buf[i + 1]],
               write_pos |-> write_pos + 1, in_whitespace |-> TRUE]
         ELSE [buf |-> buf, write_pos |-> write_pos, in_whitespace |-> TRUE]
    ELSE [buf |-> [buf EXCEPT ![write_pos + 1] = buf[i + 1]],
          write_pos |-> write_pos + 1, in_whitespace |-> FALSE]

\* One iteration of the for loop: reads buf at offset i, writes at write_pos.
Phase3Iter(buf, i, write_pos, in_whitespace) ==
    IF IsWhitespace(buf[i + 1])
    THEN IF ~in_whitespace
         THEN [buf |-> [buf EXCEPT ![write_pos + 1] = Ord[" "]],
               write_pos |-> write_pos + 1, in_whitespace |-> TRUE]
         ELSE [buf |-> buf, write_pos |-> write_pos, in_whitespace |-> TRUE]
    ELSE [buf |-> [buf EXCEPT ![write_pos + 1] = buf[i + 1]],
          write_pos |-> write_pos + 1, in_whitespace |-> FALSE]

\* The n iterations i, i + 1, ... of the for loop of phase 3 from the point
\* s = (buf, write_pos, in_whitespace), run half by half.
RECURSIVE Phase3Run(_, _, _)
Phase3Run(s, i, n) ==
    IF n <= 0
    THEN s
    ELSE IF n = 1
         THEN Phase3Iter(s.buf, i, s.write_pos, s.in_whitespace)
         ELSE Eager(Phase3Run(s, i, n \div 2),
                    LAMBDA t : Phase3Run(t, i + (n \div 2), n - (n \div 2)))

\* for (i = ...; i < output_pos; i++), then output_pos = write_pos.
Phase3Loop(buf, output_pos, i, write_pos, in_whitespace) ==
    Eager(Phase3Run([buf |-> buf, write_pos |-> write_pos,
                     in_whitespace |-> in_whitespace], i, output_pos - i),
          LAMBDA s : SubSeq(s.buf, 1, s.write_pos))

Phase3(out, whitespace_normalize) ==
    IF whitespace_normalize
    THEN Phase3Loop(out, Len(out), 0, 0, FALSE)
    ELSE out

\* Fault: the context is cleared before the copy is stored, flags included.
StoreInContextCleared(ctx, out) ==
    IF Len(out) < OBI_CANONICAL_BUFFER_SIZE
    THEN [case_sensitive |-> FALSE, whitespace_normalize |-> FALSE,
          encoding_normalize |-> FALSE,
          canonical_buffer |->
              [i \in 1..OBI_CANONICAL_BUFFER_SIZE |->
                  IF i <= Len(out) THEN out[i] ELSE 0],
          buffer_used |-> Len(out)]
    ELSE ctx

(***************************************************************************)
(* The tail of obi_uscn_normalize: the context keeps a copy of the result  *)
(* when it is shorter than the context's buffer.                           *)
(***************************************************************************)
StoreInContext(ctx, out) ==
    IF Len(out) < OBI_CANONICAL_BUFFER_SIZE
    THEN [ctx EXCEPT
            !.canonical_buffer =
                [i \in 1..OBI_CANONICAL_BUFFER_SIZE |->
                    IF i <= Len(out) THEN out[i] ELSE ctx.canonical_buffer[i]],
            !.buffer_used = Len(out)]
    ELSE ctx

\* obi_uscn_normalize(ctx, input, input_len, canonical_output, output_len)
\* with *output_len = max_output on entry and all pointers non-null: the
\* return code, the bytes written (without the terminating NUL), the length
\* reported in *output_len and the context as the call leaves it.
obi_uscn_normalize(ctx, input, input_len, max_output) ==
    Eager(Phase1(input, input_len, max_output, 0, <<>>), LAMBDA p1 :
    Eager(Phase2(p1, ctx.case_sensitive), LAMBDA p2 :
    Eager(Phase3(p2, ctx.whitespace_normalize), LAMBDA p3 :
        [rc |-> 0, canonical_output |-> p3, output_len |-> Len(p3),
         ctx |-> StoreInContext(ctx, p3)])))

\* The USCN context as obi_dfa_initialize sets it (after memset to 0).
InitialUscnContext ==
    [case_sensitive |-> FALSE, whitespace_normalize |-> TRUE,
     encoding_normalize |-> TRUE,
     canonical_buffer |-> [i \in 1..OBI_CANONICAL_BUFFER_SIZE |-> 0],
     buffer_used |-> 0]

(***************************************************************************)
(* obi_validate_canonical_equivalence(input1, input2, ctx), all pointers   *)
(* non-null: both C strings are normalized through the same context into   *)
(* buffers of OBI_CANONICAL_BUFFER_SIZE bytes and the results compared.    *)
(***************************************************************************)

\* strlen: the number of bytes before the first NUL.
StrLen(s) ==
    IF \E i \in 1..Len(s) : s[i] = 0
    THEN Min({i \in 1..Len(s) : s[i] = 0}) - 1
    ELSE Len(s)

\* Fault: the lengths are not compared, only len1 bytes are (canonical2 ends
\* with a NUL, which no byte of canonical1 equals).
CanonicalFormsEqualNoLength(canonical1, len1, canonical2, len2) ==
    \A i \in 1..len1 :
        i <= Len(canonical2) /\ canonical1[i] = canonical2[i]

\* (len1 == len2) && memcmp(canonical1, canonical2, len1) == 0
CanonicalFormsEqual(canonical1, len1, canonical2, len2) ==
    /\ len1 = len2
    /\ \A i \in 1..len1 : canonical1[i] = canonical2[i]

obi_validate_canonical_equivalence(input1, input2, ctx) ==
    Eager(obi_uscn_normalize(ctx, input1, StrLen(input1),
                             OBI_CANONICAL_BUFFER_SIZE), LAMBDA n1 :
    Eager(obi_uscn_normalize(n1.ctx, input2, StrLen(input2),
                             OBI_CANONICAL_BUFFER_SIZE), LAMBDA n2 :
        IF n1.rc # 0 \/ n2.rc # 0
        THEN [result |-> FALSE, ctx |-> n2.ctx]
        ELSE [result |-> CanonicalFormsEqual(n1.canonical_output, n1.output_len,
                                             n2.canonical_output, n2.output_len),
              ctx |-> n2.ctx]))

(***************************************************************************)
(* POSIX extended regular expressions (regcomp with REG_EXTENDED, regexec  *)
(* with no flags).  A compiled pattern is a sequence of atoms, each a set  *)
(* of bytes repeated between min and max times (max = -1: unbounded), with *)
(* an optional leading ^.  regexec reports the leftmost match and, among   *)
(* the matches starting there, the longest.                                *)
(***************************************************************************)
Atom(cls, min, max) == [cls |-> cls, min |-> min, max |-> max]
Lit(c) == Atom({Ord[c]}, 1, 1)

\* "." matches every byte; the subject is a C string, so it holds no NUL.
AnyByte == 1..255
Digits == Ord["0"]..Ord["9"]

\* The offsets at which one atom can end when it starts at offset p.
AtomEnds(atom, subject, p) ==
    {p + n : n \in {m \in atom.min..(Len(subject) - p) :
                       /\ atom.max = -1 \/ m <= atom.max
                       /\ \A j \in 1..m : subject[p + j] \in atom.cls}}

\* The offsets at which atoms k.. can end when they start at an offset of P.
RECURSIVE RegexEnds(_, _, _, _)
RegexEnds(atoms, k, subject, P) ==
    IF k > Len(atoms) \/ P = {}
    THEN P
    ELSE Eager(UNION {AtomEnds(atoms[k], subject, p) : p \in P},
               LAMBDA Q : RegexEnds(atoms, k + 1, subject, Q))

\* regexec(&regex, subject, 1, &match, 0): 0 and the match, or REG_NOMATCH.
regexec(regex, subject) ==
    Eager({s \in (IF regex.anchored THEN {0} ELSE 0..Len(subject)) :
              RegexEnds(regex.atoms, 1, subject, {s}) # {}}, LAMBDA starts :
        IF starts = {}
        THEN [rc |-> 1, rm_so |-> -1, rm_eo |-> -1]
        ELSE [rc |-> 0, rm_so |-> Min(starts),
              rm_eo |-> Max(RegexEnds(regex.atoms, 1, subject, {Min(starts)}))])

\* OBI_PATTERN_HEADER_MARKER = "^OBI-PROTOCOL-[0-9]+\\.[0-9]+:"
OBI_PATTERN_HEADER_MARKER ==
    [anchored |-> TRUE,
     atoms |-> << Lit("O"), Lit("B"), Lit("I"), Lit("-"), Lit("P"), Lit("R"),
                  Lit("O"), Lit("T"), Lit("O"), Lit("C"), Lit("O"), Lit("L"),
                  Lit("-"), Atom(Digits, 1, -1), Lit("."), Atom(Digits, 1, -1),
                  Lit(":") >>]

\* The bracket expressions of the predefined patterns.
UpperHexDigits == Digits \cup (Ord["A"]..Ord["F"])
SchemaNameBytes ==
    (Ord["A"]..(Ord["A"] + 25)) \cup (Ord["a"]..(Ord["a"] + 25)) \cup Digits
        \cup {Ord["_"], Ord["-"]}

\* The literal atoms of a tuple of characters.
Lits(cs) == [i \in 1..Len(cs) |-> Lit(cs[i])]

\* "[0-9]+\\.[0-9]+", the pattern of the VERSION_PARSING state.
PatternVersion ==
    [anchored |-> FALSE,
     atoms |-> << Atom(Digits, 1, -1), Lit("."), Atom(Digits, 1, -1) >>]

\* OBI_PATTERN_SECURITY_TOKEN = "SEC:[A-F0-9]{64}"
OBI_PATTERN_SECURITY_TOKEN ==
    [anchored |-> FALSE,
     atoms |-> Lits(<<"S","E","C",":">>) \o << Atom(UpperHexDigits, 64, 64) >>]

\* "[A-F0-9]{64}", the pattern of the TOKEN_VALIDATION state.
PatternTokenDigits ==
    [anchored |-> FALSE, atoms |-> << Atom(UpperHexDigits, 64, 64) >>]

\* OBI_PATTERN_SCHEMA_REF = "SCHEMA:[A-Za-z0-9_-]+\\.[0-9]+"
OBI_PATTERN_SCHEMA_REF ==
    [anchored |-> FALSE,
     atoms |-> Lits(<<"S","C","H","E","M","A",":">>)
               \o << Atom(SchemaNameBytes, 1, -1), Lit("."),
                     Atom(Digits, 1, -1) >>]

\* OBI_PATTERN_PAYLOAD_DELIMITER = "PAYLOAD\\|[0-9]+\\|"
OBI_PATTERN_PAYLOAD_DELIMITER ==
    [anchored |-> FALSE,
     atoms |-> Lits(<<"P","A","Y","L","O","A","D","|">>)
               \o << Atom(Digits, 1, -1), Lit("|") >>]

\* OBI_PATTERN_AUDIT_TIMESTAMP = "AUDIT:[0-9]{13}"
OBI_PATTERN_AUDIT_TIMESTAMP ==
    [anchored |-> FALSE,
     atoms |-> Lits(<<"A","U","D","I","T",":">>) \o << Atom(Digits, 13, 13) >>]

\* ".*", the pattern of the DATA_PAYLOAD state of the serialized specification.
PatternAnything == [anchored |-> FALSE, atoms |-> << Atom(AnyByte, 0, -1) >>]

\* "\\.\\./", a pattern a caller registers to recognize a path traversal.
PatternDotDotSlash ==
    [anchored |-> FALSE, atoms |-> << Lit("."), Lit("."), Lit("/") >>]

(***************************************************************************)
(* The DFA engine.                                                         *)
(***************************************************************************)

\* create_ir_node: the switch from the semantic pattern to the IR node type,
\* and the node with its own copy of content_length bytes.  (malloc is taken
\* to succeed.)
\* enum obi_semantic_pattern_t.
SemanticPatterns ==
    {"PATTERN_PROTOCOL_HEADER", "PATTERN_SECURITY_TOKEN", "PATTERN_DATA_PAYLOAD",
     "PATTERN_SCHEMA_REFERENCE", "PATTERN_AUDIT_MARKER",
     "PATTERN_TRANSITION_BOUNDARY", "PATTERN_CANONICAL_DELIMITER",
     "PATTERN_ERROR_RECOVERY"}

\* Fault: the switch has no default, and a kind it does not list leaves the
\* type of a payload block.
IrNodeTypeWithoutDefault(pattern_type) ==
    CASE pattern_type = "PATTERN_PROTOCOL_HEADER"  -> "IR_PROTOCOL_MESSAGE"
      [] pattern_type = "PATTERN_SECURITY_TOKEN"   -> "IR_SECURITY_CONTEXT"
      [] pattern_type = "PATTERN_SCHEMA_REFERENCE" -> "IR_SCHEMA_VALIDATION"
      [] pattern_type = "PATTERN_AUDIT_MARKER"     -> "IR_AUDIT_RECORD"
      [] OTHER                                     -> "IR_PAYLOAD_BLOCK"

IrNodeType(pattern_type) ==
    CASE pattern_type = "PATTERN_PROTOCOL_HEADER"  -> "IR_PROTOCOL_MESSAGE"
      [] pattern_type = "PATTERN_SECURITY_TOKEN"   -> "IR_SECURITY_CONTEXT"
      [] pattern_type = "PATTERN_DATA_PAYLOAD"     -> "IR_PAYLOAD_BLOCK"
      [] pattern_type = "PATTERN_SCHEMA_REFERENCE" -> "IR_SCHEMA_VALIDATION"
      [] pattern_type = "PATTERN_AUDIT_MARKER"     -> "IR_AUDIT_RECORD"
      [] OTHER                                     -> "IR_ERROR_CONDITION"

\* Fault: the node keeps the pointer into the canonical buffer, so that its
\* content reads on to the end of the buffer.
CreateIrNodeWithoutCopy(source_state, pattern_type, canonical_content, content_length, governance_cost) ==
    [type |-> IrNodeType(pattern_type),
     canonical_content |-> canonical_content,
     content_length |-> content_length,
     source_state |-> source_state,
     governance_cost |-> governance_cost]

create_ir_node(source_state, pattern_type, canonical_content, content_length, governance_cost) ==
    [type |-> IrNodeType(pattern_type),
     canonical_content |-> SubSeq(canonical_content, 1, content_length),
     content_length |-> content_length,
     source_state |-> source_state,
     governance_cost |-> governance_cost]

\* obi_dfa_initialize(dfa, zero_trust_mode) on a non-null dfa.  The cost
\* accumulator counts thousandths (0.1 is 100).
obi_dfa_initialize(zero_trust_mode) ==
    [states |-> << [state_id |-> 0,
                    pattern_type |-> "PATTERN_PROTOCOL_HEADER",
                    regex_pattern |-> OBI_PATTERN_HEADER_MARKER,
                    is_accepting |-> FALSE,
                    requires_zero_trust_validation |-> TRUE,
                    transition_count |-> 0] >>,
     state_count |-> 1,
     transition_count |-> 0,
     current_state |-> 0,
     uscn_context |-> InitialUscnContext,
     zero_trust_enforced |-> zero_trust_mode,
     governance_cost_accumulator |-> 0]

\* Fault: the handle is not tested, and the caller's engine is written.
DfaInitializeCallUnchecked(engine, handle_is_null, zero_trust_mode) ==
    [rc |-> 0, dfa |-> obi_dfa_initialize(zero_trust_mode)]

\* if (!dfa) return -1; ... return 0: the return code of obi_dfa_initialize
\* and the engine behind the handle afterwards (the engine is whatever the
\* caller holds when the handle passed is NULL).
obi_dfa_initialize_call(engine, handle_is_null, zero_trust_mode) ==
    IF handle_is_null
    THEN [rc |-> -1, dfa |-> engine]
    ELSE [rc |-> 0, dfa |-> obi_dfa_initialize(zero_trust_mode)]

\* Fault: the bound is tested with > in place of >=.
RegistryFullOffByOne(dfa) == dfa.state_count > OBI_MAX_STATES

\* dfa->state_count >= OBI_MAX_STATES
RegistryFull(dfa) == dfa.state_count >= OBI_MAX_STATES

\* Fault: only a payload makes a state accepting.
IsAcceptingPatternPayloadOnly(pattern_type) ==
    pattern_type = "PATTERN_DATA_PAYLOAD"

\* state->is_accepting = (pattern_type == PATTERN_DATA_PAYLOAD ||
\*                        pattern_type == PATTERN_AUDIT_MARKER)
IsAcceptingPattern(pattern_type) ==
    pattern_type = "PATTERN_DATA_PAYLOAD" \/ pattern_type = "PATTERN_AUDIT_MARKER"

\* obi_dfa_register_pattern(dfa, pattern_type, regex_pattern, validator) on
\* non-null arguments: the return value and the engine afterwards.
obi_dfa_register_pattern(dfa, pattern_type, regex_pattern) ==
    IF RegistryFull(dfa)
    THEN [rc |-> -1, dfa |-> dfa]
    ELSE [rc |-> dfa.state_count,
          dfa |-> [dfa EXCEPT
              !.states = Append(@,
                  [state_id |-> dfa.state_count,
                   pattern_type |-> pattern_type,
                   regex_pattern |-> regex_pattern,
                   is_accepting |-> IsAcceptingPattern(pattern_type),
                   requires_zero_trust_validation |-> dfa.zero_trust_enforced,
                   transition_count |-> 0]),
              !.state_count = @ + 1]]

\* Fault: without Zero Trust the raw input is scanned.
NormalizeOnlyUnderZeroTrust(dfa, input, input_length) ==
    IF dfa.zero_trust_enforced
    THEN obi_uscn_normalize(dfa.uscn_context, input, input_length,
                            OBI_CANONICAL_BUFFER_SIZE)
    ELSE [rc |-> 0, canonical_output |-> SubSeq(input, 1, input_length),
          output_len |-> input_length, ctx |-> dfa.uscn_context]

\* Phase 1 of obi_dfa_process_input: the input is normalized through the
\* engine's context into canonical_input, a buffer of
\* OBI_CANONICAL_BUFFER_SIZE bytes, whatever the Zero Trust flag.
NormalizeForAdmission(dfa, input, input_length) ==
    obi_uscn_normalize(dfa.uscn_context, input, input_length,
                       OBI_CANONICAL_BUFFER_SIZE)

\* canonical_input + pos as regexec reads it: the bytes from offset pos up to
\* the first NUL (the normalizer wrote one at offset canonical_length).
SubjectAt(canonical_input, canonical_length, pos) ==
    LET rest == SubSeq(canonical_input, pos + 1, canonical_length)
    IN  SubSeq(rest, 1, StrLen(rest))

\* The for loop over the states: the first state, in registration order,
\* whose pattern matches at offset 0 of the subject; -1 when none does.
MatchingState(dfa, subject) ==
    LET hits == {i \in 0..(dfa.state_count - 1) :
                    LET m == regexec(dfa.states[i + 1].regex_pattern, subject)
                    IN  m.rc = 0 /\ m.rm_so = 0}
    IN  IF hits = {} THEN -1 ELSE Min(hits)

\* Fault: a fixed rebate is taken off the cost of a match.
MatchCostWithRebate(match_length) == 100 * match_length - 350

\* double cost = 0.1 * match_length, in thousandths.
MatchCost(match_length) == 100 * match_length

\* The nodes malloc can supply to one admission before it returns NULL: as
\* many as a terminating scan can ask for, one per canonical byte.
IrHeapNodes == OBI_CANONICAL_BUFFER_SIZE

\* if (node) { ... ir_current = node; }: a node is linked unless
\* create_ir_node returned NULL.
IrAppend(ir, node) == IF Len(ir) < IrHeapNodes THEN Append(ir, node) ELSE ir

\* Fault: canonical_input has static storage, one buffer for all calls.
CanonicalInputStatic(thread) == 1

\* char canonical_input[OBI_CANONICAL_BUFFER_SIZE] and size_t
\* canonical_length are automatic: every call has its own, in the stack of
\* the thread that makes it.
CanonicalInputSlot(thread) == thread

\* Fault: the scan resumes in the state the admission before left.
ScanStartStateResumed(dfa) == dfa.current_state

\* uint32_t current_state = 0: the state in which phase 2 starts.
ScanStartState(dfa) == 0

\* Fault: the node records the state that matched.
NodeSourceStateMatched(current_state, state) == state.state_id

\* The first argument of the create_ir_node call: current_state, the state
\* the engine was in before the match.
NodeSourceState(current_state, state) == current_state

\* One iteration of the while loop of phase 2: the node created (if a state
\* matched), and pos, current_state and the cost added after the iteration.
ScanIter(dfa, canonical_input, canonical_length, pos, current_state) ==
    Eager(SubjectAt(canonical_input, canonical_length, pos), LAMBDA subject :
    Eager(MatchingState(dfa, subject), LAMBDA i :
        IF i = -1
        THEN [state_matched |-> FALSE, pos |-> pos + 1,
              current_state |-> current_state, cost |-> 0,
              subject |-> subject]
        ELSE Eager(regexec(dfa.states[i + 1].regex_pattern, subject), LAMBDA m :
             LET state == dfa.states[i + 1]
                 match_length == m.rm_eo - m.rm_so
                 cost == MatchCost(match_length)
             IN  [state_matched |-> TRUE, pos |-> pos + match_length,
                  current_state |-> state.state_id, cost |-> cost,
                  subject |-> subject,
                  node |-> create_ir_node(NodeSourceState(current_state, state),
                               state.pattern_type,
                               SubSeq(canonical_input, pos + 1, canonical_length),
                               match_length, cost)])))

\* The while loop of phase 2 run to its end: the IR list, current_state and
\* the cost added.  A match of length 0 leaves pos where it is, and the loop
\* never ends: diverges.
RECURSIVE ScanLoop(_, _, _, _, _, _, _)
ScanLoop(dfa, canonical_input, canonical_length, pos, current_state, ir, cost) ==
    IF pos < canonical_length
    THEN Eager(ScanIter(dfa, canonical_input, canonical_length, pos,
                        current_state), LAMBDA s :
             IF s.state_matched /\ s.pos = pos
             THEN [diverges |-> TRUE, ir |-> ir,
                   current_state |-> current_state, cost |-> cost]
             ELSE Eager(IF s.state_matched THEN IrAppend(ir, s.node) ELSE ir,
                        LAMBDA ir2 :
                            ScanLoop(dfa, canonical_input, canonical_length,
                                     s.pos, s.current_state, ir2,
                                     cost + s.cost)))
    ELSE [diverges |-> FALSE, ir |-> ir, current_state |-> current_state,
          cost |-> cost]

\* obi_dfa_process_input(dfa, input, input_length, ir_output) on non-null
\* arguments, as one function: the return code and *ir_output.
obi_dfa_process_input(dfa, input, input_length) ==
    Eager(NormalizeForAdmission(dfa, input, input_length), LAMBDA n :
        IF n.rc # 0
        THEN [rc |-> -1, ir_output |-> <<>>, diverges |-> FALSE,
              current_state |-> dfa.current_state, cost |-> 0]
        ELSE Eager(ScanLoop(dfa, n.canonical_output, n.output_len, 0,
                            ScanStartState(dfa), <<>>, 0), LAMBDA r :
                 [rc |-> 0, ir_output |-> r.ir, diverges |-> r.diverges,
                  current_state |-> r.current_state, cost |-> r.cost]))

\* Fault: the accumulator is returned as it is.
GovernanceCostWithoutPrelude(dfa) == dfa.governance_cost_accumulator

\* obi_calculate_governance_cost(dfa) on a non-null dfa, in thousandths:
\* 0.01 per state, 0.005 per transition, 0.05 under Zero Trust.
obi_calculate_governance_cost(dfa) ==
    dfa.governance_cost_accumulator
        + 10 * dfa.state_count
        + 5 * dfa.transition_count
        + (IF dfa.zero_trust_enforced THEN 50 ELSE 0)

\* The cost of the transition from -> from + 1 in the transition matrix of
\* the serialized specification, in thousandths.
TransitionCostWeight(from) == <<100, 100, 200, 300, 100, 100, 50>>[from + 1]

\* The state a transition of the matrix leads to, for from in 0..6.
TransitionTarget(from) == from + 1

(***************************************************************************)
(* Inputs of the harnesses: concatenations of chunks.                      *)
(***************************************************************************)
RECURSIVE ChunkStrings(_, _)
ChunkStrings(chunks, n) ==
    IF n = 0
    THEN {<<>>}
    ELSE LET shorter == ChunkStrings(chunks, n - 1)
         IN  shorter \cup {p \o c : p \in shorter, c \in chunks}

\* A run of plain bytes two short of the canonical buffer's size, so that
\* what follows it meets the end of the buffer.
Filler == [i \in 1..(OBI_CANONICAL_BUFFER_SIZE - 2) |-> Ord["A"]]

\* Encoded forms of the table, a case variant, and plain bytes.
UscnChunks ==
    { Filler,
      Bytes(<<"%","2","e","%","2","e","%","2","f">>),
      Bytes(<<"%","c","0","%","a","f">>),
      Bytes(<<".","%","2","e","/">>),
      Bytes(<<"%","2","e","%","2","e","/">>),
      Bytes(<<"%","2","e">>),
      Bytes(<<"%","2","E">>),
      Bytes(<<"%","2","0">>),
      Bytes(<<"\t">>),
      Bytes(<<"A">>),
      Bytes(<<".">>) }

UscnInputs == ChunkStrings(UscnChunks, MaxChunks)

EquivChunks ==
    { Bytes(<<"%","2","e">>), Bytes(<<".">>), Bytes(<<"A">>),
      Bytes(<<"%","2","0">>), Bytes(<<"\t">>), Bytes(<<" ">>) }

EquivInputs == ChunkStrings(EquivChunks, MaxEquivChunks)

EngineChunks ==
    { Filler,
      Bytes(<<"%","2","e","%","2","e","%","2","f">>),
      Bytes(<<"%","2","E">>),
      Bytes(<<".",".","/">>),
      <<0>> }

\* The buffers a caller passes, the empty one (input_length = 0) included.
EngineInputs == ChunkStrings(EngineChunks, MaxEngineChunks)

\* The canonical form the engine scans for an input.
CanonicalOf(input) ==
    obi_uscn_normalize(InitialUscnContext, input, Len(input),
                       OBI_CANONICAL_BUFFER_SIZE).canonical_output

\* The canonical form of each buffer a caller passes.
EngineCanonical == [b \in EngineInputs |-> CanonicalOf(b)]

\* The states 1..7 of the serialized specification, as a caller registers
\* them after obi_dfa_initialize has created state 0.  (The enum has no
\* PAYLOAD_DELIMITER: the delimiter is registered as a structural separator.)
BuiltInStates ==
    << [pattern_type |-> "PATTERN_PROTOCOL_HEADER", regex_pattern |-> PatternVersion],
       [pattern_type |-> "PATTERN_SECURITY_TOKEN",
        regex_pattern |-> OBI_PATTERN_SECURITY_TOKEN],
       [pattern_type |-> "PATTERN_SECURITY_TOKEN", regex_pattern |-> PatternTokenDigits],
       [pattern_type |-> "PATTERN_SCHEMA_REFERENCE",
        regex_pattern |-> OBI_PATTERN_SCHEMA_REF],
       [pattern_type |-> "PATTERN_CANONICAL_DELIMITER",
        regex_pattern |-> OBI_PATTERN_PAYLOAD_DELIMITER],
       [pattern_type |-> "PATTERN_DATA_PAYLOAD", regex_pattern |-> PatternAnything],
       [pattern_type |-> "PATTERN_AUDIT_MARKER",
        regex_pattern |-> OBI_PATTERN_AUDIT_TIMESTAMP] >>

\* What a caller that fills the registry registers as state state_id: the
\* states of the serialized specification, then the same eight over again.
\* (Any further state 0 is registered like the first, with the header.)
RegistryFill(state_id) ==
    IF state_id % 8 = 0
    THEN [pattern_type |-> "PATTERN_PROTOCOL_HEADER",
          regex_pattern |-> OBI_PATTERN_HEADER_MARKER]
    ELSE BuiltInStates[state_id % 8]

\* "OBI-PROTOCOL-1.0:SEC:" + 64 x "A"
\*   + "SCHEMA:msg.1PAYLOAD|5|helloAUDIT:1700000000000"
HappyMessage ==
    Bytes(<<"O","B","I","-","P","R","O","T","O","C","O","L","-","1",".","0",":",
            "S","E","C",":">>)
    \o [i \in 1..64 |-> Ord["A"]]
    \o Bytes(<<"S","C","H","E","M","A",":","m","s","g",".","1",
               "P","A","Y","L","O","A","D","|","5","|","h","e","l","l","o",
               "A","U","D","I","T",":",
               "1","7","0","0","0","0","0","0","0","0","0","0","0">>)

\* What a caller registers: (pattern type, pattern).
PatternPool ==
    { [pattern_type |-> "PATTERN_DATA_PAYLOAD", regex_pattern |-> PatternAnything],
      [pattern_type |-> "PATTERN_CANONICAL_DELIMITER",
       regex_pattern |-> PatternDotDotSlash] }

(***************************************************************************)
(* The protocol-state-validation feature                                   *)
(* (features/protocol-state-validation/src/core): one static flag and       *)
(* three functions.  Each operator gives the result returned and the flag  *)
(* after the call.                                                         *)
(***************************************************************************)

\* Fault: a second init is refused.
FeatureInitOnce(initialized) ==
    IF initialized
    THEN [result |-> "ERROR_DEPENDENCY_FAILURE", initialized |-> initialized]
    ELSE [result |-> "SUCCESS", initialized |-> TRUE]

\* protocol-state-validation_init(void)
protocol_state_validation_init(initialized) ==
    IF initialized
    THEN [result |-> "SUCCESS", initialized |-> initialized]
    ELSE [result |-> "SUCCESS", initialized |-> TRUE]

\* protocol-state-validation_cleanup(void)
protocol_state_validation_cleanup(initialized) ==
    IF ~initialized THEN initialized ELSE FALSE

\* Fault: the input is refused only when data is NULL and length is 0.
FeatureProcessBothRequired(initialized, data_is_null, length) ==
    IF ~initialized
    THEN [result |-> "ERROR_DEPENDENCY_FAILURE", initialized |-> initialized]
    ELSE IF data_is_null /\ length = 0
         THEN [result |-> "ERROR_INVALID_INPUT", initialized |-> initialized]
         ELSE [result |-> "SUCCESS", initialized |-> initialized]

\* protocol-state-validation_process(data, length)
protocol_state_validation_process(initialized, data_is_null, length) ==
    IF ~initialized
    THEN [result |-> "ERROR_DEPENDENCY_FAILURE", initialized |-> initialized]
    ELSE IF data_is_null \/ length = 0
         THEN [result |-> "ERROR_INVALID_INPUT", initialized |-> initialized]
         ELSE [result |-> "SUCCESS", initialized |-> initialized]

(***************************************************************************)
(* The topology layer (obitopology/src/core/topology_core.c) and the       *)
(* buffer layer (obibuffer/src/core/buffer_core.c).  Each keeps three      *)
(* statics; an operator takes the statics of its layer as a record and     *)
(* gives the result returned and the statics after the call.  Pointers are *)
(* NULL, the address of a static, or the protocol context of the caller.   *)
(***************************************************************************)
NULL == "NULL"
AddressOfTopologyCtx == "&topology_ctx"
AddressOfBufferCtx == "&buffer_ctx"

\* static obi_topology_context_t topology_ctx = {0}, and what memset leaves
ZeroTopologyCtx == [active |-> FALSE, active_nodes |-> 0, failover_enabled |-> FALSE]

\* static obi_buffer_context_t buffer_ctx = {0}, and what memset leaves
ZeroBufferCtx == [active |-> FALSE, audit_enabled |-> FALSE]

\* static bool topology_initialized = false; protocol_context = NULL
TopologyStaticsAtStart == [topology_initialized |-> FALSE, protocol_context |-> NULL, topology_ctx |-> ZeroTopologyCtx]

\* static bool buffer_initialized = false; topology_context = NULL
BufferStaticsAtStart == [buffer_initialized |-> FALSE, topology_context |-> NULL, buffer_ctx |-> ZeroBufferCtx]

\* obi_topology_init(protocol_ctx)
obi_topology_init(topology, protocol_ctx) ==
    IF topology.topology_initialized
    THEN [result |-> "OBI_TOPOLOGY_SUCCESS", topology |-> topology]
    ELSE IF protocol_ctx = NULL
         THEN [result |-> "OBI_TOPOLOGY_ERROR_PROTOCOL_DEPENDENCY", topology |-> topology]
         ELSE [result |-> "OBI_TOPOLOGY_SUCCESS",
               topology |-> [topology_initialized |-> TRUE,
                             protocol_context |-> protocol_ctx,
                             topology_ctx |-> [active |-> TRUE, active_nodes |-> 1, failover_enabled |-> TRUE]]]

\* obi_topology_cleanup(void)
obi_topology_cleanup(topology) ==
    IF ~topology.topology_initialized
    THEN topology
    ELSE [topology_initialized |-> FALSE, protocol_context |-> NULL, topology_ctx |-> ZeroTopologyCtx]

\* obi_topology_get_context(void)
obi_topology_get_context(topology) ==
    IF topology.topology_initialized THEN AddressOfTopologyCtx ELSE NULL

\* obi_buffer_init(topology_ctx)
obi_buffer_init(buffer, topology_ctx) ==
    IF buffer.buffer_initialized
    THEN [result |-> "OBI_BUFFER_SUCCESS", buffer |-> buffer]
    ELSE IF topology_ctx = NULL
         THEN [result |-> "OBI_BUFFER_ERROR_TOPOLOGY_DEPENDENCY", buffer |-> buffer]
         ELSE [result |-> "OBI_BUFFER_SUCCESS",
               buffer |-> [buffer_initialized |-> TRUE,
                           topology_context |-> topology_ctx,
                           buffer_ctx |-> [active |-> TRUE, audit_enabled |-> TRUE]]]

\* obi_buffer_cleanup(void)
obi_buffer_cleanup(buffer) ==
    IF ~buffer.buffer_initialized
    THEN buffer
    ELSE [buffer_initialized |-> FALSE, topology_context |-> NULL, buffer_ctx |-> ZeroBufferCtx]

\* obi_buffer_get_context(void)
obi_buffer_get_context(buffer) ==
    IF buffer.buffer_initialized THEN AddressOfBufferCtx ELSE NULL

(***************************************************************************)
(* The command-line interface (cli/obibuf_main.c).  main keeps an          *)
(* obibuf_cli_context_t with one pointer per layer.  The operators below   *)
(* work on a record w of that context, the statics of the two layers and   *)
(* the list of layers brought up and down so far, in the order in which    *)
(* it happened.                                                            *)
(***************************************************************************)
ZeroCliContext == [protocol_ctx |-> NULL, topology_ctx |-> NULL, buffer_ctx |-> NULL]

LayerCategories == {"CMD_CATEGORY_PROTOCOL", "CMD_CATEGORY_TOPOLOGY", "CMD_CATEGORY_BUFFER"}

\* parse_category(category)
parse_category(category) ==
    IF category = "protocol" THEN "CMD_CATEGORY_PROTOCOL"
    ELSE IF category = "topology" THEN "CMD_CATEGORY_TOPOLOGY"
    ELSE IF category = "buffer" THEN "CMD_CATEGORY_BUFFER"
    ELSE IF category = "help" \/ category = "--help" THEN "CMD_CATEGORY_HELP"
    ELSE IF category = "version" \/ category = "--version" THEN "CMD_CATEGORY_VERSION"
    ELSE "CMD_CATEGORY_UNKNOWN"

\* initialize_layers, the protocol layer: created is what
\* obi_protocol_create_context(true) returned.
InitializeLayersProtocol(w, created) ==
    LET ctx == [w.ctx EXCEPT !.protocol_ctx = created]
    IN  IF created = NULL
        THEN [result |-> "OBIBUF_ERROR", w |-> [w EXCEPT !.ctx = ctx]]
        ELSE [result |-> "continue",
              w |-> [w EXCEPT !.ctx = ctx, !.log = Append(@, "protocol_up")]]

\* initialize_layers, the topology layer: call is what
\* obi_topology_init(ctx->protocol_ctx) returned and left in the statics.
InitializeLayersTopology(w, call) ==
    IF call.result # "OBI_TOPOLOGY_SUCCESS"
    THEN [result |-> "OBIBUF_ERROR",
          w |-> [w EXCEPT !.topology = call.topology,
                          !.log = Append(@, "protocol_down")]]
    ELSE [result |-> "continue",
          w |-> [w EXCEPT !.topology = call.topology,
                          !.ctx.topology_ctx = obi_topology_get_context(call.topology),
                          !.log = Append(@, "topology_up")]]

\* initialize_layers, the buffer layer: call is what
\* obi_buffer_init(ctx->topology_ctx) returned and left in the statics.
InitializeLayersBuffer(w, call) ==
    IF call.result # "OBI_BUFFER_SUCCESS"
    THEN [result |-> "OBIBUF_ERROR",
          w |-> [w EXCEPT !.buffer = call.buffer,
                          !.topology = obi_topology_cleanup(@),
                          !.log = @ \o <<"topology_down", "protocol_down">>]]
    ELSE [result |-> "OBIBUF_SUCCESS",
          w |-> [w EXCEPT !.buffer = call.buffer,
                          !.ctx.buffer_ctx = obi_buffer_get_context(call.buffer),
                          !.log = Append(@, "buffer_up")]]

\* Fault: the layers are taken down in the order in which they came up.
CleanupLayersProtocolFirst(w) ==
    LET w1 == IF w.ctx.protocol_ctx # NULL
              THEN [w EXCEPT !.log = Append(@, "protocol_down")]
              ELSE w
        w2 == IF w1.ctx.topology_ctx # NULL
              THEN [w1 EXCEPT !.topology = obi_topology_cleanup(@),
                              !.log = Append(@, "topology_down")]
              ELSE w1
    IN  IF w2.ctx.buffer_ctx # NULL
        THEN [w2 EXCEPT !.buffer = obi_buffer_cleanup(@),
                        !.log = Append(@, "buffer_down")]
        ELSE w2

\* cleanup_layers(ctx)
cleanup_layers(w) ==
    LET w1 == IF w.ctx.buffer_ctx # NULL
              THEN [w EXCEPT !.buffer = obi_buffer_cleanup(@),
                             !.log = Append(@, "buffer_down")]
              ELSE w
        w2 == IF w1.ctx.topology_ctx # NULL
              THEN [w1 EXCEPT !.topology = obi_topology_cleanup(@),
                              !.log = Append(@, "topology_down")]
              ELSE w1
    IN  IF w2.ctx.protocol_ctx # NULL
        THEN [w2 EXCEPT !.log = Append(@, "protocol_down")]
        ELSE w2

(***************************************************************************)
(* State.                                                                  *)
(***************************************************************************)
VARIABLES
    \* A caller of obi_uscn_normalize that normalizes a byte string and then
    \* normalizes the result again, and the frame of the call in progress.
    n_pc,          \* "phase1", "phase2", "phase3", "store", "done", "idle"
    n_ctx,         \* the obi_uscn_context_t passed
    n_src,         \* the byte string the caller started from
    n_pass,        \* 1: normalizing n_src; 2: normalizing the first result
    n_first,       \* the result of pass 1 (set when pass 2 starts)
    n_input,       \* input
    n_input_len,   \* input_len
    n_max_output,  \* max_output = *output_len on entry
    n_input_pos,   \* input_pos
    n_out,         \* canonical_output[0 .. output_pos - 1]
    n_mid,         \* the output buffer as phase 3 found it
    n_last,        \* the last iteration of phase 1: where it stood, what it applied
    n_rc,          \* the return code, once returned
    n_output_len,  \* *output_len, once returned
    \* A caller of obi_validate_canonical_equivalence on three C strings.
    e_pc,          \* "call", "done", "idle"
    e_ctx,
    e_a, e_b, e_c,
    e_res,         \* the results of the calls
    \* An engine, and the frame of the obi_dfa_process_input call in progress.
    dfa,           \* the obi_protocol_dfa_t
    admissions,    \* the number of obi_dfa_process_input calls made
    p_pc,          \* "idle", "normalize", "scan", "done"
    p_input,       \* input
    p_input_length,
    p_canonical_input,   \* canonical_input[0 .. canonical_length - 1]
    p_canonical_length,
    p_current_state,     \* the local current_state
    p_pos,
    p_ir,          \* the list from ir_head
    p_regexec,     \* the last regexec call: the offset and the subject it read
    p_rc,          \* the return code, once returned
    p_ir_output,   \* *ir_output, once returned
    p_null,        \* the argument passed as NULL, or "none"
    p_spans,       \* for each node linked: where its match lay, the state
                   \* matched and what the match added to the accumulator
    p_prev,        \* what the caller kept of its previous admission
    g_cost,        \* the last obi_calculate_governance_cost call since then
    g_register,    \* the last obi_dfa_register_pattern call on the engine
    i_init,        \* the last obi_dfa_initialize call
    \* The protocol-state-validation feature and a client of it.
    protocol_state_validation_initialized,   \* the static flag
    f_calls,       \* the calls the client made, with what each returned
    \* The statics of the topology layer and of the buffer layer, and a
    \* client of the two layers.
    topology,      \* topology_initialized, protocol_context, topology_ctx
    buffer,        \* buffer_initialized, topology_context, buffer_ctx
    l_held,        \* what obi_topology_get_context last returned to the client
    l_calls,       \* the calls the client made, with what each returned
    \* One run of the command-line interface.
    m_pc,          \* "idle", "entered", "initialize_protocol",
                   \* "initialize_topology", "initialize_buffer", "dispatch",
                   \* "cleanup", "returned"
    m_argc,        \* argc
    m_argv1,       \* argv[1], NULL when argc < 2
    m_category,    \* category, once parsed
    m_ctx,         \* ctx
    m_log,         \* the layers brought up and down so far, in order
    m_initialize,  \* what initialize_layers returned, once it has
    m_result,      \* what main returned, once it has
    \* Two threads, each with an engine of its own, and the frame of the
    \* obi_dfa_process_input call each makes on its engine.
    t_dfa,         \* the obi_protocol_dfa_t of each thread
    t_canonical,   \* canonical_input and canonical_length, by storage slot
    t_frame        \* the other locals of each call, and what it returned

uscn_vars == <<n_pc, n_ctx, n_src, n_pass, n_first, n_input, n_input_len,
               n_max_output, n_input_pos, n_out, n_mid, n_last, n_rc,
               n_output_len>>
equiv_vars == <<e_pc, e_ctx, e_a, e_b, e_c, e_res>>
frame_vars == <<p_input, p_input_length, p_canonical_input, p_canonical_length,
                p_current_state, p_pos, p_ir, p_regexec, p_rc, p_ir_output,
                p_null, p_spans>>
caller_vars == <<p_prev, g_cost>>
api_vars == <<g_register, i_init>>
engine_vars == <<dfa, admissions, p_pc, frame_vars, caller_vars, api_vars>>
feature_vars == <<protocol_state_validation_initialized, f_calls>>
layer_vars == <<topology, buffer, l_held, l_calls>>
cli_vars == <<m_pc, m_argc, m_argv1, m_category, m_ctx, m_log, m_initialize, m_result>>
pair_vars == <<t_dfa, t_canonical, t_frame>>
system_vars == <<feature_vars, layer_vars, cli_vars, pair_vars>>
vars == <<uscn_vars, equiv_vars, engine_vars, system_vars>>

NoIteration == [input_pos |-> 0, output_pos |-> 0, mapping |-> 0, taken |-> FALSE]
NoResults == [aa |-> FALSE, ab |-> FALSE, ba |-> FALSE, bc |-> FALSE, ac |-> FALSE]
NoRegexec == [called |-> FALSE, pos |-> 0, subject |-> <<>>]
NoPrevious == [made |-> FALSE, input |-> <<>>, ir_output |-> <<>>,
               current_state |-> 0, accumulator |-> 0, cost |-> 0]
NoCost == [called |-> FALSE, value |-> 0]
NoRegister == [called |-> FALSE, rc |-> 0, count_before |-> 0]
Initialized(zero_trust_mode) == [handle_is_null |-> FALSE, zero_trust_mode |-> zero_trust_mode, rc |-> 0]

UscnIdle ==
    /\ n_pc = "idle" /\ n_ctx = InitialUscnContext /\ n_src = <<>>
    /\ n_pass = 0 /\ n_first = <<>> /\ n_input = <<>> /\ n_input_len = 0
    /\ n_max_output = 0 /\ n_input_pos = 0 /\ n_out = <<>> /\ n_mid = <<>>
    /\ n_last = NoIteration /\ n_rc = 0 /\ n_output_len = 0

EquivIdle ==
    /\ e_pc = "idle" /\ e_ctx = InitialUscnContext
    /\ e_a = <<>> /\ e_b = <<>> /\ e_c = <<>> /\ e_res = NoResults

FrameIdle ==
    /\ p_input = <<>> /\ p_input_length = 0
    /\ p_canonical_input = <<>> /\ p_canonical_length = 0
    /\ p_current_state = 0 /\ p_pos = 0 /\ p_ir = <<>>
    /\ p_regexec = NoRegexec /\ p_rc = 0 /\ p_ir_output = <<>>
    /\ p_null = "none" /\ p_spans = <<>>

CallerIdle ==
    /\ p_prev = NoPrevious /\ g_cost = NoCost
    /\ g_register = NoRegister /\ i_init = Initialized(dfa.zero_trust_enforced)

EngineIdle ==
    /\ dfa = obi_dfa_initialize(FALSE) /\ admissions = 0 /\ p_pc = "idle"
    /\ FrameIdle /\ CallerIdle

\* static bool protocol-state-validation_initialized = false
FeatureIdle ==
    /\ protocol_state_validation_initialized = FALSE /\ f_calls = <<>>

\* The statics of both layers as the program starts, and a client that
\* has called nothing.
LayersIdle ==
    /\ topology = TopologyStaticsAtStart /\ buffer = BufferStaticsAtStart
    /\ l_held = NULL /\ l_calls = <<>>

\* obibuf_cli_context_t ctx = {0}
CliIdle ==
    /\ m_pc = "idle" /\ m_argc = 0 /\ m_argv1 = NULL /\ m_category = "none"
    /\ m_ctx = ZeroCliContext /\ m_log = <<>> /\ m_initialize = "none"
    /\ m_result = "none"

Threads == {1, 2}

NoCanonical == [canonical_input |-> <<>>, canonical_length |-> 0]

IdleFrame(engine) ==
    [pc |-> "idle", input |-> <<>>, input_length |-> 0, current_state |-> 0,
     pos |-> 0, ir |-> <<>>, rc |-> 0, ir_output |-> <<>>, dfa0 |-> engine,
     overlapped |-> FALSE]

PairIdle ==
    /\ t_dfa = [t \in Threads |-> obi_dfa_initialize(FALSE)]
    /\ t_canonical = [slot \in Threads |-> NoCanonical]
    /\ t_frame = [t \in Threads |-> IdleFrame(t_dfa[t])]

SystemIdle == FeatureIdle /\ LayersIdle /\ CliIdle /\ PairIdle

(***************************************************************************)
(* The normalizer, step by step.                                           *)
(***************************************************************************)
UscnInit ==
    /\ n_src \in UscnInputs
    /\ n_max_output \in 1..OBI_CANONICAL_BUFFER_SIZE
    /\ n_ctx = InitialUscnContext
    /\ n_pc = "phase1" /\ n_pass = 1 /\ n_first = <<>>
    /\ n_input = n_src /\ n_input_len = Len(n_src)
    /\ n_input_pos = 0 /\ n_out = <<>> /\ n_mid = <<>>
    /\ n_last = NoIteration /\ n_rc = 0 /\ n_output_len = 0

\* One iteration of the phase 1 loop.
UscnPhase1Step ==
    /\ n_pc = "phase1"
    /\ Phase1Cond(n_input_len, n_max_output, n_input_pos, n_out)
    /\ \E s \in {Phase1Iter(n_input, n_input_len, n_max_output, n_input_pos,
                             n_out)} :
           /\ n_input_pos' = s.input_pos
           /\ n_out' = s.out
           /\ n_last' = [input_pos |-> n_input_pos, output_pos |-> Len(n_out),
                         mapping |-> s.mapping, taken |-> TRUE]
    /\ UNCHANGED <<n_pc, n_ctx, n_src, n_pass, n_first, n_input, n_input_len,
                   n_max_output, n_mid, n_rc, n_output_len>>
    /\ UNCHANGED <<equiv_vars, engine_vars, system_vars>>

\* The phase 1 loop ends: the input is consumed or the output is full.
UscnPhase1Exit ==
    /\ n_pc = "phase1"
    /\ ~Phase1Cond(n_input_len, n_max_output, n_input_pos, n_out)
    /\ n_pc' = "phase2"
    /\ UNCHANGED <<n_ctx, n_src, n_pass, n_first, n_input, n_input_len,
                   n_max_output, n_input_pos, n_out, n_mid, n_last, n_rc,
                   n_output_len>>
    /\ UNCHANGED <<equiv_vars, engine_vars, system_vars>>

UscnPhase2 ==
    /\ n_pc = "phase2"
    /\ n_out' = Phase2(n_out, n_ctx.case_sensitive)
    /\ n_mid' = n_out'
    /\ n_pc' = "phase3"
    /\ UNCHANGED <<n_ctx, n_src, n_pass, n_first, n_input, n_input_len,
                   n_max_output, n_input_pos, n_last, n_rc, n_output_len>>
    /\ UNCHANGED <<equiv_vars, engine_vars, system_vars>>

UscnPhase3 ==
    /\ n_pc = "phase3"
    /\ n_out' = Phase3(n_out, n_ctx.whitespace_normalize)
    /\ n_pc' = "store"
    /\ UNCHANGED <<n_ctx, n_src, n_pass, n_first, n_input, n_input_len,
                   n_max_output, n_input_pos, n_mid, n_last, n_rc, n_output_len>>
    /\ UNCHANGED <<equiv_vars, engine_vars, system_vars>>

\* The terminating NUL, *output_len, the copy kept in the context, return 0.
UscnReturn ==
    /\ n_pc = "store"
    /\ n_output_len' = Len(n_out)
    /\ n_ctx' = StoreInContext(n_ctx, n_out)
    /\ n_rc' = 0
    /\ n_pc' = "done"
    /\ UNCHANGED <<n_src, n_pass, n_first, n_input, n_input_len, n_max_output,
                   n_input_pos, n_out, n_mid, n_last>>
    /\ UNCHANGED <<equiv_vars, engine_vars, system_vars>>

\* The caller normalizes the result of the first call, with the same
\* capacity and the same context.
UscnAgain ==
    /\ n_pc = "done" /\ n_pass = 1
    /\ n_first' = n_out
    /\ n_input' = n_out /\ n_input_len' = n_output_len
    /\ n_pass' = 2 /\ n_pc' = "phase1"
    /\ n_input_pos' = 0 /\ n_out' = <<>> /\ n_mid' = <<>>
    /\ n_last' = NoIteration
    /\ UNCHANGED <<n_ctx, n_src, n_max_output, n_rc, n_output_len>>
    /\ UNCHANGED <<equiv_vars, engine_vars, system_vars>>

UscnNext ==
    \/ UscnPhase1Step
    \/ UscnPhase1Exit
    \/ UscnPhase2
    \/ UscnPhase3
    \/ UscnReturn
    \/ UscnAgain

InitUSCN == UscnInit /\ EquivIdle /\ EngineIdle /\ SystemIdle

SpecUSCN == InitUSCN /\ [][UscnNext]_vars

(***************************************************************************)
(* The normalizer called with any capacity in *output_len, 0 included.     *)
(* A write past the capacity is undefined: the call may go on as if the    *)
(* buffer were longer, or the process may stop at the write.               *)
(***************************************************************************)
CapacityInit ==
    /\ n_src \in UscnInputs
    /\ n_max_output \in 0..OBI_CANONICAL_BUFFER_SIZE
    /\ n_ctx = InitialUscnContext
    /\ n_pc = "phase1" /\ n_pass = 1 /\ n_first = <<>>
    /\ n_input = n_src /\ n_input_len = Len(n_src)
    /\ n_input_pos = 0 /\ n_out = <<>> /\ n_mid = <<>>
    /\ n_last = NoIteration /\ n_rc = 0 /\ n_output_len = 0

\* The bytes of phase 1 went past canonical_output[max_output - 1], or the
\* terminating NUL did.
WrotePastCapacity ==
    \/ n_pc \in {"phase1", "phase2", "phase3", "store", "done"}
          /\ (Len(n_out) > n_max_output \/ Len(n_mid) > n_max_output)
    \/ n_pc = "done" /\ n_output_len >= n_max_output

\* The process stops at a write outside the caller's buffer.
UscnWriteFault ==
    /\ WrotePastCapacity
    /\ n_pc # "fault"
    /\ n_pc' = "fault"
    /\ UNCHANGED <<n_ctx, n_src, n_pass, n_first, n_input, n_input_len,
                   n_max_output, n_input_pos, n_out, n_mid, n_last, n_rc,
                   n_output_len>>
    /\ UNCHANGED <<equiv_vars, engine_vars, system_vars>>

CapacityNext ==
    \/ UscnPhase1Step
    \/ UscnPhase1Exit
    \/ UscnPhase2
    \/ UscnPhase3
    \/ UscnReturn
    \/ UscnWriteFault

InitCapacity == CapacityInit /\ EquivIdle /\ EngineIdle /\ SystemIdle

SpecCapacity == InitCapacity /\ [][CapacityNext]_vars

(***************************************************************************)
(* The equivalence predicate, applied to three strings in every order the  *)
(* laws of an equivalence relation need, or to a row of the encoding map.  *)
(***************************************************************************)
EquivInit ==
    /\ \/ /\ e_a \in EquivInputs /\ e_b \in EquivInputs /\ e_c \in EquivInputs
       \/ /\ \E k \in 1..Len(uscn_encoding_map) :
                /\ e_a = uscn_encoding_map[k].encoded_form
                /\ e_b = uscn_encoding_map[k].canonical_form
          /\ e_c = <<>>
    /\ e_ctx = InitialUscnContext
    /\ e_pc = "call"
    /\ e_res = NoResults

\* Five calls in a row through the one context.
EquivCalls ==
    /\ e_pc = "call"
    /\ \E aa \in {obi_validate_canonical_equivalence(e_a, e_a, e_ctx)} :
       \E ab \in {obi_validate_canonical_equivalence(e_a, e_b, aa.ctx)} :
       \E ba \in {obi_validate_canonical_equivalence(e_b, e_a, ab.ctx)} :
       \E bc \in {obi_validate_canonical_equivalence(e_b, e_c, ba.ctx)} :
       \E ac \in {obi_validate_canonical_equivalence(e_a, e_c, bc.ctx)} :
           /\ e_res' = [aa |-> aa.result, ab |-> ab.result, ba |-> ba.result,
                        bc |-> bc.result, ac |-> ac.result]
           /\ e_ctx' = ac.ctx
    /\ e_pc' = "done"
    /\ UNCHANGED <<e_a, e_b, e_c>>
    /\ UNCHANGED <<uscn_vars, engine_vars, system_vars>>

EquivNext == EquivCalls

InitEquiv == EquivInit /\ UscnIdle /\ EngineIdle /\ SystemIdle

SpecEquiv == InitEquiv /\ [][EquivNext]_vars

(***************************************************************************)
(* The engine: registrations, then admissions, each step by step.          *)
(***************************************************************************)
EngineInit ==
    /\ \E zero_trust_mode \in BOOLEAN : dfa = obi_dfa_initialize(zero_trust_mode)
    /\ admissions = 0
    /\ p_pc = "idle"
    /\ FrameIdle /\ CallerIdle

\* obi_dfa_register_pattern, before the first admission; the caller
\* registers a pattern type once.
DfaRegisterPattern ==
    /\ p_pc = "idle" /\ admissions = 0
    /\ dfa.state_count < 1 + MaxRegistrations
    /\ \E p \in PatternPool :
          /\ \A i \in 1..dfa.state_count :
                dfa.states[i].pattern_type # p.pattern_type
          /\ \E r \in {obi_dfa_register_pattern(dfa, p.pattern_type,
                                                 p.regex_pattern)} :
                /\ dfa' = r.dfa
                /\ g_register' = [called |-> TRUE, rc |-> r.rc,
                                  count_before |-> dfa.state_count]
    /\ UNCHANGED <<admissions, p_pc, frame_vars, caller_vars, i_init>>
    /\ UNCHANGED <<uscn_vars, equiv_vars, system_vars>>

\* The frame of a call that starts on non-null arguments.
EnterProcessInput(input) ==
    /\ p_input' = input
    /\ p_input_length' = Len(input)
    /\ p_null' = "none"
    /\ admissions' = admissions + 1
    /\ p_pc' = "normalize"
    /\ p_canonical_input' = <<>> /\ p_canonical_length' = 0
    /\ p_current_state' = 0 /\ p_pos' = 0 /\ p_ir' = <<>>
    /\ p_regexec' = NoRegexec /\ p_rc' = 0 /\ p_ir_output' = <<>>
    /\ p_spans' = <<>>
    /\ g_cost' = NoCost

\* obi_dfa_process_input is called on non-null arguments: the caller's first
\* message.
ProcessInputCall ==
    /\ p_pc = "idle"
    /\ admissions < MaxAdmissions
    /\ \E input \in EngineInputs : EnterProcessInput(input)
    /\ UNCHANGED <<dfa, p_prev, api_vars>>
    /\ UNCHANGED <<uscn_vars, equiv_vars, system_vars>>

\* The caller keeps the outcome and the cost of the admission that returned
\* and calls obi_dfa_process_input on the same engine again, with the same
\* message or another spelling of it (an input with the same canonical form).
ProcessInputAgain ==
    /\ p_pc = "done" /\ p_null = "none"
    /\ g_cost.called
    /\ admissions < MaxAdmissions
    /\ p_prev' = [made |-> TRUE, input |-> p_input, ir_output |-> p_ir_output,
                  current_state |-> dfa.current_state,
                  accumulator |-> dfa.governance_cost_accumulator,
                  cost |-> g_cost.value]
    /\ \E input \in {b \in EngineInputs :
                         EngineCanonical[b] = EngineCanonical[p_input]} :
          EnterProcessInput(input)
    /\ UNCHANGED <<dfa, api_vars>>
    /\ UNCHANGED <<uscn_vars, equiv_vars, system_vars>>

\* if (!dfa || !input || !ir_output) return -1: nothing is read or written.
ProcessInputNullArgument ==
    /\ p_pc \in {"idle", "done"}
    /\ admissions < MaxAdmissions
    /\ \E arg \in {"dfa", "input", "ir_output"} : p_null' = arg
    /\ admissions' = admissions + 1
    /\ p_input' = <<>> /\ p_input_length' = 0
    /\ p_canonical_input' = <<>> /\ p_canonical_length' = 0
    /\ p_current_state' = 0 /\ p_pos' = 0 /\ p_ir' = <<>>
    /\ p_regexec' = NoRegexec
    /\ p_spans' = <<>>
    /\ p_rc' = -1
    /\ p_pc' = "done"
    /\ g_cost' = NoCost
    /\ UNCHANGED <<dfa, p_ir_output, p_prev, api_vars>>
    /\ UNCHANGED <<uscn_vars, equiv_vars, system_vars>>

\* Phase 1: USCN normalization into canonical_input; then the locals of
\* phase 2 are set.  (The normalizer returns 0 on non-null arguments.)
ProcessInputNormalize ==
    /\ p_pc = "normalize"
    /\ \E n \in {NormalizeForAdmission(dfa, p_input, p_input_length)} :
           /\ n.rc = 0
           /\ p_canonical_input' = n.canonical_output
           /\ p_canonical_length' = n.output_len
           /\ dfa' = [dfa EXCEPT !.uscn_context = n.ctx]
    /\ p_current_state' = ScanStartState(dfa) /\ p_pos' = 0 /\ p_ir' = <<>>
    /\ p_pc' = "scan"
    /\ UNCHANGED <<admissions, p_input, p_input_length, p_regexec, p_rc,
                   p_ir_output, p_null, p_spans, caller_vars, api_vars>>
    /\ UNCHANGED <<uscn_vars, equiv_vars, system_vars>>

\* One iteration of the while loop of phase 2.
ProcessInputScanStep ==
    /\ p_pc = "scan"
    /\ p_pos < p_canonical_length
    /\ \E s \in {ScanIter(dfa, p_canonical_input, p_canonical_length, p_pos,
                           p_current_state)} :
           /\ p_pos' = s.pos
           /\ p_current_state' = s.current_state
           /\ p_ir' = IF s.state_matched THEN IrAppend(p_ir, s.node) ELSE p_ir
           /\ p_spans' = IF s.state_matched /\ Len(p_ir) < IrHeapNodes
                          THEN Append(p_spans,
                                      [start |-> p_pos, end |-> s.pos,
                                       state |-> s.current_state,
                                       added |-> s.cost])
                          ELSE p_spans
           /\ dfa' = [dfa EXCEPT !.governance_cost_accumulator = @ + s.cost]
           /\ p_regexec' = [called |-> TRUE, pos |-> p_pos,
                            subject |-> s.subject]
    /\ UNCHANGED <<admissions, p_pc, p_input, p_input_length, p_canonical_input,
                   p_canonical_length, p_rc, p_ir_output, p_null, caller_vars,
                   api_vars>>
    /\ UNCHANGED <<uscn_vars, equiv_vars, system_vars>>

\* The loop ends: *ir_output = ir_head, dfa->current_state, return 0.
ProcessInputReturn ==
    /\ p_pc = "scan"
    /\ ~(p_pos < p_canonical_length)
    /\ p_ir_output' = p_ir
    /\ dfa' = [dfa EXCEPT !.current_state = p_current_state]
    /\ p_rc' = 0
    /\ p_pc' = "done"
    /\ UNCHANGED <<admissions, p_input, p_input_length, p_canonical_input,
                   p_canonical_length, p_current_state, p_pos, p_ir, p_regexec,
                   p_null, p_spans, caller_vars, api_vars>>
    /\ UNCHANGED <<uscn_vars, equiv_vars, system_vars>>

\* The caller asks obi_calculate_governance_cost for the cost after an
\* admission that returned.
CalculateGovernanceCost ==
    /\ p_pc = "done" /\ p_null = "none"
    /\ ~g_cost.called
    /\ g_cost' = [called |-> TRUE, value |-> obi_calculate_governance_cost(dfa)]
    /\ UNCHANGED <<dfa, admissions, p_pc, frame_vars, p_prev, api_vars>>
    /\ UNCHANGED <<uscn_vars, equiv_vars, system_vars>>

Next ==
    \/ DfaRegisterPattern
    \/ ProcessInputCall
    \/ ProcessInputAgain
    \/ ProcessInputNullArgument
    \/ ProcessInputNormalize
    \/ ProcessInputScanStep
    \/ ProcessInputReturn
    \/ CalculateGovernanceCost

Init == EngineInit /\ UscnIdle /\ EquivIdle /\ SystemIdle

Spec == Init /\ [][Next]_vars

(***************************************************************************)
(* The engine of the serialized specification: a caller registers its      *)
(* states in order, goes on registering until the registry is full, may    *)
(* initialize again, and admits the message of the protocol once the eight *)
(* states are there.                                                       *)
(***************************************************************************)

\* obi_dfa_register_pattern with the next state of the fill, before any
\* admission; the call fails once the registry is full.
RegisterBuiltIn ==
    /\ p_pc = "idle" /\ admissions = 0
    /\ \E p \in {RegistryFill(dfa.state_count)} :
       \E r \in {obi_dfa_register_pattern(dfa, p.pattern_type, p.regex_pattern)} :
          /\ dfa' = r.dfa
          /\ g_register' = [called |-> TRUE, rc |-> r.rc,
                            count_before |-> dfa.state_count]
    /\ UNCHANGED <<admissions, p_pc, frame_vars, caller_vars, i_init>>
    /\ UNCHANGED <<uscn_vars, equiv_vars, system_vars>>

\* obi_dfa_initialize is called again on the engine.
DfaInitializeAgain ==
    /\ p_pc = "idle" /\ admissions = 0
    /\ \E zero_trust_mode \in BOOLEAN :
       \E r \in {obi_dfa_initialize_call(dfa, FALSE, zero_trust_mode)} :
          /\ dfa' = r.dfa
          /\ i_init' = [handle_is_null |-> FALSE, zero_trust_mode |-> zero_trust_mode,
                        rc |-> r.rc]
    /\ g_register' = NoRegister
    /\ UNCHANGED <<admissions, p_pc, frame_vars, caller_vars>>
    /\ UNCHANGED <<uscn_vars, equiv_vars, system_vars>>

\* obi_dfa_initialize is called with a NULL handle, as test_dfa_initialization
\* calls it, by a caller that holds the engine.
DfaInitializeNull ==
    /\ p_pc = "idle" /\ admissions = 0
    /\ \E zero_trust_mode \in BOOLEAN :
       \E r \in {obi_dfa_initialize_call(dfa, TRUE, zero_trust_mode)} :
          /\ dfa' = r.dfa
          /\ i_init' = [handle_is_null |-> TRUE, zero_trust_mode |-> zero_trust_mode,
                        rc |-> r.rc]
    /\ UNCHANGED <<admissions, p_pc, frame_vars, caller_vars, g_register>>
    /\ UNCHANGED <<uscn_vars, equiv_vars, system_vars>>

\* obi_dfa_process_input is called on the message of the protocol, on an
\* engine that holds the eight states.
ProcessHappyMessage ==
    /\ p_pc = "idle" /\ admissions = 0
    /\ dfa.state_count = 1 + Len(BuiltInStates)
    /\ EnterProcessInput(HappyMessage)
    /\ UNCHANGED <<dfa, p_prev, api_vars>>
    /\ UNCHANGED <<uscn_vars, equiv_vars, system_vars>>

\* Phase 1 with canonical_input at the size the source gives it.  (The
\* context's copy of the canonical form is left as it was.)
ProcessInputNormalizeFullSize ==
    /\ p_pc = "normalize"
    /\ \E n \in {obi_uscn_normalize(dfa.uscn_context, p_input, p_input_length,
                                     SOURCE_CANONICAL_BUFFER_SIZE)} :
           /\ n.rc = 0
           /\ p_canonical_input' = n.canonical_output
           /\ p_canonical_length' = n.output_len
    /\ p_current_state' = ScanStartState(dfa) /\ p_pos' = 0 /\ p_ir' = <<>>
    /\ p_pc' = "scan"
    /\ UNCHANGED <<dfa, admissions, p_input, p_input_length, p_regexec, p_rc,
                   p_ir_output, p_null, p_spans, caller_vars, api_vars>>
    /\ UNCHANGED <<uscn_vars, equiv_vars, system_vars>>

BuiltInNext ==
    \/ RegisterBuiltIn
    \/ DfaInitializeAgain
    \/ DfaInitializeNull
    \/ ProcessHappyMessage
    \/ ProcessInputNormalizeFullSize
    \/ ProcessInputScanStep
    \/ ProcessInputReturn
    \/ CalculateGovernanceCost

SpecBuiltIn == Init /\ [][BuiltInNext]_vars

(***************************************************************************)
(* A client of the protocol-state-validation feature: it calls init,       *)
(* cleanup and process in any order, process with a NULL or non-NULL       *)
(* buffer and any length.                                                  *)
(***************************************************************************)
FeatureCalled(op, data_is_null, length, result, after) ==
    /\ f_calls' = Append(f_calls,
                         [op |-> op, data_is_null |-> data_is_null,
                          length |-> length, result |-> result,
                          before |-> protocol_state_validation_initialized,
                          after |-> after])
    /\ protocol_state_validation_initialized' = after
    /\ UNCHANGED <<uscn_vars, equiv_vars, engine_vars, layer_vars, cli_vars, pair_vars>>

FeatureInit ==
    /\ Len(f_calls) < MaxFeatureCalls
    /\ \E r \in {protocol_state_validation_init(
                      protocol_state_validation_initialized)} :
          FeatureCalled("init", TRUE, 0, r.result, r.initialized)

FeatureCleanup ==
    /\ Len(f_calls) < MaxFeatureCalls
    /\ FeatureCalled("cleanup", TRUE, 0, "void",
                     protocol_state_validation_cleanup(
                         protocol_state_validation_initialized))

FeatureProcess ==
    /\ Len(f_calls) < MaxFeatureCalls
    /\ \E data_is_null \in BOOLEAN, length \in 0..MaxDataLength :
       \E r \in {protocol_state_validation_process(
                      protocol_state_validation_initialized, data_is_null,
                      length)} :
          FeatureCalled("process", data_is_null, length, r.result, r.initialized)

FeatureNext ==
    \/ FeatureInit
    \/ FeatureCleanup
    \/ FeatureProcess

InitFeature == SystemIdle /\ UscnIdle /\ EquivIdle /\ EngineIdle

SpecFeature == InitFeature /\ [][FeatureNext]_vars

(***************************************************************************)
(* A client of the layer API: it calls obi_topology_init,                  *)
(* obi_topology_get_context, obi_topology_cleanup, obi_buffer_init and     *)
(* obi_buffer_cleanup in any order.  It passes obi_topology_init NULL or   *)
(* its protocol context, and obi_buffer_init NULL or the pointer that      *)
(* obi_topology_get_context last gave it.                                  *)
(***************************************************************************)
ProtocolCtx == "protocol_ctx"

LayerCalled(op, arg, result, topology_after, buffer_after, held_after) ==
    /\ l_calls' = Append(l_calls, [op |-> op, arg |-> arg, result |-> result])
    /\ topology' = topology_after
    /\ buffer' = buffer_after
    /\ l_held' = held_after
    /\ UNCHANGED <<uscn_vars, equiv_vars, engine_vars, feature_vars, cli_vars, pair_vars>>

LayerTopologyInit ==
    /\ Len(l_calls) < MaxLayerCalls
    /\ \E protocol_ctx \in {NULL, ProtocolCtx} :
       \E r \in {obi_topology_init(topology, protocol_ctx)} :
          LayerCalled("obi_topology_init", protocol_ctx, r.result, r.topology, buffer, l_held)

LayerTopologyGetContext ==
    /\ Len(l_calls) < MaxLayerCalls
    /\ \E c \in {obi_topology_get_context(topology)} :
          LayerCalled("obi_topology_get_context", NULL, c, topology, buffer, c)

LayerTopologyCleanup ==
    /\ Len(l_calls) < MaxLayerCalls
    /\ LayerCalled("obi_topology_cleanup", NULL, "void", obi_topology_cleanup(topology), buffer, l_held)

LayerBufferInit ==
    /\ Len(l_calls) < MaxLayerCalls
    /\ \E topology_ctx \in {NULL, l_held} :
       \E r \in {obi_buffer_init(buffer, topology_ctx)} :
          LayerCalled("obi_buffer_init", topology_ctx, r.result, topology, r.buffer, l_held)

LayerBufferCleanup ==
    /\ Len(l_calls) < MaxLayerCalls
    /\ LayerCalled("obi_buffer_cleanup", NULL, "void", topology, obi_buffer_cleanup(buffer), l_held)

LayersNext ==
    \/ LayerTopologyInit
    \/ LayerTopologyGetContext
    \/ LayerTopologyCleanup
    \/ LayerBufferInit
    \/ LayerBufferCleanup

InitLayers == SystemIdle /\ UscnIdle /\ EquivIdle /\ EngineIdle

SpecLayers == InitLayers /\ [][LayersNext]_vars

(***************************************************************************)
(* One run of the command-line interface, from the entry of main to its    *)
(* return.  The process starts with the statics of both layers as the      *)
(* loader leaves them.  obi_protocol_create_context gives a context or     *)
(* NULL; a command handler gives OBIBUF_SUCCESS or OBIBUF_ERROR and calls  *)
(* neither an init nor a cleanup function of a layer.                      *)
(***************************************************************************)
Argv1Strings == {"protocol", "topology", "buffer", "help", "--help", "version", "--version", "bogus"}

CliWorld == [ctx |-> m_ctx, topology |-> topology, buffer |-> buffer, log |-> m_log]

CliWorldBecomes(w) ==
    /\ m_ctx' = w.ctx /\ topology' = w.topology /\ buffer' = w.buffer
    /\ m_log' = w.log

CliRest == <<uscn_vars, equiv_vars, engine_vars, feature_vars, l_held, l_calls, pair_vars>>

\* The shell starts the program.
MainCall ==
    /\ m_pc = "idle"
    /\ \E argc \in 1..MaxArgc :
       \E arg \in IF argc < 2 THEN {NULL} ELSE Argv1Strings :
          /\ m_argc' = argc /\ m_argv1' = arg
    /\ m_pc' = "entered"
    /\ UNCHANGED <<m_category, m_ctx, m_log, m_initialize, m_result, topology, buffer, CliRest>>

\* main, up to the call of initialize_layers
MainParse ==
    /\ m_pc = "entered"
    /\ IF m_argc < 2
       THEN /\ m_pc' = "returned" /\ m_result' = "OBIBUF_ERROR"
            /\ UNCHANGED m_category
       ELSE /\ m_category' = parse_category(m_argv1)
            /\ IF m_category' = "CMD_CATEGORY_VERSION" \/ m_category' = "CMD_CATEGORY_HELP"
               THEN m_pc' = "returned" /\ m_result' = "OBIBUF_SUCCESS"
               ELSE IF m_category' = "CMD_CATEGORY_UNKNOWN"
                    THEN m_pc' = "returned" /\ m_result' = "OBIBUF_ERROR"
                    ELSE m_pc' = "initialize_protocol" /\ UNCHANGED m_result
    /\ UNCHANGED <<m_argc, m_argv1, m_ctx, m_log, m_initialize, topology, buffer, CliRest>>

\* What main does with the value initialize_layers returns, and the step
\* of initialize_layers that comes next when it has not returned.
InitializeLayersStep(r, next) ==
    /\ CliWorldBecomes(r.w)
    /\ IF r.result = "continue"
       THEN m_pc' = next /\ UNCHANGED <<m_initialize, m_result>>
       ELSE IF r.result = "OBIBUF_SUCCESS"
            THEN m_pc' = "dispatch" /\ m_initialize' = r.result /\ UNCHANGED m_result
            ELSE m_pc' = "returned" /\ m_initialize' = r.result /\ m_result' = "OBIBUF_ERROR"
    /\ UNCHANGED <<m_argc, m_argv1, m_category, CliRest>>

MainInitializeProtocol ==
    /\ m_pc = "initialize_protocol"
    /\ \E created \in {NULL, ProtocolCtx} :
          InitializeLayersStep(InitializeLayersProtocol(CliWorld, created), "initialize_topology")

MainInitializeTopology ==
    /\ m_pc = "initialize_topology"
    /\ InitializeLayersStep(InitializeLayersTopology(CliWorld, obi_topology_init(topology, m_ctx.protocol_ctx)), "initialize_buffer")

MainInitializeBuffer ==
    /\ m_pc = "initialize_buffer"
    /\ InitializeLayersStep(InitializeLayersBuffer(CliWorld, obi_buffer_init(buffer, m_ctx.topology_ctx)), "dispatch")

\* handle_protocol_commands, handle_topology_commands and
\* handle_buffer_commands: each prints its usage and fails when it is given
\* no command, and otherwise succeeds or fails.
HandlerResults(argc) ==
    IF argc < 2 THEN {"OBIBUF_ERROR"} ELSE {"OBIBUF_SUCCESS", "OBIBUF_ERROR"}

\* main, the switch on the category
MainDispatch ==
    /\ m_pc = "dispatch"
    /\ \E result \in HandlerResults(m_argc - 1) :
          m_result' = IF m_category \in LayerCategories THEN result ELSE "OBIBUF_ERROR"
    /\ m_pc' = "cleanup"
    /\ UNCHANGED <<m_argc, m_argv1, m_category, m_ctx, m_log, m_initialize, topology, buffer, CliRest>>

\* main, cleanup_layers(&ctx) and return result
MainCleanup ==
    /\ m_pc = "cleanup"
    /\ CliWorldBecomes(cleanup_layers(CliWorld))
    /\ m_pc' = "returned"
    /\ UNCHANGED <<m_argc, m_argv1, m_category, m_initialize, m_result, CliRest>>

CliNext ==
    \/ MainCall
    \/ MainParse
    \/ MainInitializeProtocol
    \/ MainInitializeTopology
    \/ MainInitializeBuffer
    \/ MainDispatch
    \/ MainCleanup

InitCli == SystemIdle /\ UscnIdle /\ EquivIdle /\ EngineIdle

SpecCli == InitCli /\ [][CliNext]_vars

(***************************************************************************)
(* Two threads, each with an engine of its own, registered before the      *)
(* threads start.  Each thread calls obi_dfa_process_input once on its     *)
(* engine; the steps of the two calls interleave in any order.             *)
(***************************************************************************)
PairInputs == ChunkStrings(EngineChunks, MaxPairChunks)

\* The engines a thread may own: initialized, then patterns registered.
PairEngines ==
    { obi_dfa_register_pattern(obi_dfa_initialize(FALSE), "PATTERN_DATA_PAYLOAD", PatternAnything).dfa,
      obi_dfa_register_pattern(obi_dfa_register_pattern(obi_dfa_initialize(TRUE), "PATTERN_CANONICAL_DELIMITER", PatternDotDotSlash).dfa, "PATTERN_DATA_PAYLOAD", PatternAnything).dfa }

PairInit ==
    /\ t_dfa \in [Threads -> PairEngines]
    /\ t_canonical = [slot \in Threads |-> NoCanonical]
    /\ t_frame = [t \in Threads |-> IdleFrame(t_dfa[t])]

PairRest == <<uscn_vars, equiv_vars, engine_vars, feature_vars, layer_vars, cli_vars>>

\* The other thread is inside its call.
OtherInCall(t) == \E u \in Threads \ {t} : t_frame[u].pc \in {"normalize", "scan"}

\* A thread calls obi_dfa_process_input on its engine, on non-null arguments.
PairProcessInputCall ==
    /\ \E t \in Threads : \E input \in PairInputs :
          /\ t_frame[t].pc = "idle"
          /\ t_frame' = [t_frame EXCEPT ![t].pc = "normalize", ![t].input = input, ![t].input_length = Len(input)]
    /\ UNCHANGED <<t_dfa, t_canonical, PairRest>>

\* Phase 1 of a thread's call.
PairProcessInputNormalize ==
    /\ \E t \in Threads :
          /\ t_frame[t].pc = "normalize"
          /\ \E n \in {NormalizeForAdmission(t_dfa[t], t_frame[t].input, t_frame[t].input_length)} :
                /\ n.rc = 0
                /\ t_canonical' = [t_canonical EXCEPT ![CanonicalInputSlot(t)] = [canonical_input |-> n.canonical_output, canonical_length |-> n.output_len]]
                /\ t_dfa' = [t_dfa EXCEPT ![t].uscn_context = n.ctx]
          /\ t_frame' = [t_frame EXCEPT ![t].pc = "scan", ![t].current_state = ScanStartState(t_dfa[t]), ![t].pos = 0, ![t].ir = <<>>, ![t].overlapped = @ \/ OtherInCall(t)]
    /\ UNCHANGED PairRest

\* One iteration of the while loop of a thread's call.
PairProcessInputScanStep ==
    /\ \E t \in Threads :
          /\ t_frame[t].pc = "scan"
          /\ t_frame[t].pos < t_canonical[CanonicalInputSlot(t)].canonical_length
          /\ \E s \in {ScanIter(t_dfa[t], t_canonical[CanonicalInputSlot(t)].canonical_input, t_canonical[CanonicalInputSlot(t)].canonical_length, t_frame[t].pos, t_frame[t].current_state)} :
                /\ t_frame' = [t_frame EXCEPT ![t].pos = s.pos, ![t].current_state = s.current_state, ![t].ir = IF s.state_matched THEN IrAppend(@, s.node) ELSE @, ![t].overlapped = @ \/ OtherInCall(t)]
                /\ t_dfa' = [t_dfa EXCEPT ![t].governance_cost_accumulator = @ + s.cost]
    /\ UNCHANGED <<t_canonical, PairRest>>

\* The loop of a thread's call ends.
PairProcessInputReturn ==
    /\ \E t \in Threads :
          /\ t_frame[t].pc = "scan"
          /\ ~(t_frame[t].pos < t_canonical[CanonicalInputSlot(t)].canonical_length)
          /\ t_frame' = [t_frame EXCEPT ![t].pc = "done", ![t].rc = 0, ![t].ir_output = t_frame[t].ir]
          /\ t_dfa' = [t_dfa EXCEPT ![t].current_state = t_frame[t].current_state]
    /\ UNCHANGED <<t_canonical, PairRest>>

PairNext ==
    \/ PairProcessInputCall
    \/ PairProcessInputNormalize
    \/ PairProcessInputScanStep
    \/ PairProcessInputReturn

InitPair == PairInit /\ FeatureIdle /\ LayersIdle /\ CliIdle /\ UscnIdle /\ EquivIdle /\ EngineIdle

SpecPair == InitPair /\ [][PairNext]_vars

(***************************************************************************)
(* Properties.                                                             *)
(***************************************************************************)

\* The step-by-step normalizer and obi_uscn_normalize agree on every call.
UscnStepsAgreeWithOperator ==
    n_pc = "done" =>
        n_out = obi_uscn_normalize(InitialUscnContext, n_input, n_input_len,
                                   n_max_output).canonical_output

\* The step-by-step admission and obi_dfa_process_input agree.
AdmissionStepsAgreeWithOperator ==
    (p_pc = "done" /\ p_null = "none") =>
        obi_dfa_process_input(dfa, p_input, p_input_length).ir_output = p_ir_output

\* C1: normalization is idempotent: normalizing the output of a
\* normalization returns the same bytes, normalize(normalize(s)) =
\* normalize(s).
C1_Idempotent ==
    (n_pc = "done" /\ n_pass = 2) => n_out = n_first

\* C2: the admission is independent of encoding: admitting s and admitting
\* normalize(s) on an engine with the same registry give the same return
\* code and the same IR stream.
C2_AdmissionOfNormalizedInput ==
    p_pc = "done" =>
        \A n \in {obi_uscn_normalize(dfa.uscn_context, p_input, p_input_length,
                                     OBI_CANONICAL_BUFFER_SIZE)} :
        \A r \in {obi_dfa_process_input(dfa, n.canonical_output, n.output_len)} :
            r.rc = p_rc /\ r.ir_output = p_ir_output

\* The rows of the encoding map whose encoded form an earlier row holds too.
ShadowedRows ==
    {k \in 1..Len(uscn_encoding_map) :
        \E j \in 1..(k - 1) :
            uscn_encoding_map[j].encoded_form = uscn_encoding_map[k].encoded_form}

IsRow(k, encoded, canonical) ==
    /\ encoded = uscn_encoding_map[k].encoded_form
    /\ canonical = uscn_encoding_map[k].canonical_form

\* C3 (as stated): for every row of the encoding map, the encoded form and
\* the canonical form are canonically equivalent, the row `%c0%af` -> `/`
\* included.
C3_EveryRowEquivalent ==
    e_pc = "done" =>
        \A k \in 1..Len(uscn_encoding_map) : IsRow(k, e_a, e_b) => e_res.ab

\* C3 (amended): for every row of the encoding map whose encoded form no
\* earlier row holds, the encoded form and the canonical form are
\* canonically equivalent.
C3_EveryUnshadowedRowEquivalent ==
    e_pc = "done" =>
        \A k \in (1..Len(uscn_encoding_map)) \ ShadowedRows :
            IsRow(k, e_a, e_b) => e_res.ab

\* A row of three canonical bytes and a row of one were both compared.
C3_Witness ==
    /\ e_pc = "done" /\ e_res.ab
    /\ \E k \in (1..Len(uscn_encoding_map)) \ ShadowedRows :
          /\ IsRow(k, e_a, e_b)
          /\ uscn_encoding_map[k].canonical_len = 3
          /\ e_a # e_b

\* s spells t with some hex letters (a..f) in the other case.
IsHexCaseVariant(s, t) ==
    /\ Len(s) = Len(t)
    /\ \A i \in 1..Len(s) :
          \/ s[i] = t[i]
          \/ /\ t[i] \in Ord["a"]..Ord["f"] /\ s[i] = t[i] - 32
          \/ /\ t[i] \in Ord["A"]..Ord["F"] /\ s[i] = t[i] + 32

\* C4: the encoded forms are matched case-insensitively on their hex digits:
\* every case spelling of a rule's encoded form is rewritten to the same
\* canonical bytes as the spelling of the table.
C4_HexCaseInsensitive ==
    (n_pc = "done" /\ n_pass = 1 /\ n_max_output = OBI_CANONICAL_BUFFER_SIZE) =>
        \A k \in 1..Len(uscn_encoding_map) :
            IsHexCaseVariant(n_src, uscn_encoding_map[k].encoded_form) =>
                n_out = obi_uscn_normalize(InitialUscnContext,
                            uscn_encoding_map[k].encoded_form,
                            uscn_encoding_map[k].encoded_len,
                            n_max_output).canonical_output

\* The rows that match the input at an offset, and the one that must win:
\* the longest encoded form, the first in table order among equals.
RowsMatching(input, input_len, input_pos) ==
    {k \in 1..Len(uscn_encoding_map) :
        MappingMatches(input, input_len, input_pos, uscn_encoding_map[k])}

LongestRow(M) ==
    Min({k \in M : \A j \in M :
            uscn_encoding_map[j].encoded_len <= uscn_encoding_map[k].encoded_len})

\* C5: at every position of phase 1 where rules match, the rule applied is
\* the longest one (the first in table order among equals), at every fill
\* level of the output buffer.
C5_LongestRuleApplied ==
    n_last.taken =>
        \A M \in {RowsMatching(n_input, n_input_len, n_last.input_pos)} :
            M # {} => n_last.mapping = LongestRow(M)

\* The canonical form of the input is longer than the canonical buffer.
Overflows(input) ==
    Len(Phase1(input, Len(input), Len(input) + 2, 0, <<>>))
        > OBI_CANONICAL_BUFFER_SIZE

\* C6: an input whose canonical form does not fit in the canonical buffer is
\* rejected (a non-zero return code) and gives no IR.
C6_OverflowRejected ==
    (p_pc = "done" /\ Overflows(p_input)) => (p_rc # 0 /\ p_ir_output = <<>>)

\* C7: with a capacity of 1..OBI_CANONICAL_BUFFER_SIZE, the canonical length
\* stays below the capacity and within the canonical buffer's size at every
\* point of the three phases, and so does the length reported on success.
C7_LengthBelowCapacity ==
    n_pc # "idle" =>
        /\ Len(n_out) < n_max_output
        /\ Len(n_out) <= OBI_CANONICAL_BUFFER_SIZE
        /\ n_pc = "done" =>
              /\ n_rc = 0
              /\ n_output_len = Len(n_out)
              /\ n_output_len < n_max_output
              /\ n_output_len <= OBI_CANONICAL_BUFFER_SIZE

\* A call that filled the buffer to the last byte before the NUL with input
\* left over.
C7_Witness ==
    /\ n_pc = "done" /\ n_pass = 1
    /\ n_output_len = n_max_output - 1
    /\ n_max_output = OBI_CANONICAL_BUFFER_SIZE
    /\ n_input_pos < n_input_len

\* A byte string with every maximal run of whitespace replaced by one space.
RECURSIVE SkipWhitespace(_)
SkipWhitespace(s) ==
    IF s # <<>> /\ IsWhitespace(Head(s)) THEN SkipWhitespace(Tail(s)) ELSE s

RECURSIVE CollapseRuns(_)
CollapseRuns(s) ==
    IF s = <<>>
    THEN <<>>
    ELSE IF IsWhitespace(Head(s))
         THEN <<Ord[" "]>> \o CollapseRuns(SkipWhitespace(s))
         ELSE <<Head(s)>> \o CollapseRuns(Tail(s))

\* C8: phase 3 turns every maximal run of space, tab, CR and LF into one
\* space, keeps every other byte in order, and keeps one space for a leading
\* or trailing run.
C8_WhitespaceRunsCollapse ==
    n_pc \in {"store", "done"} => n_out = CollapseRuns(n_mid)

\* A leading run of two whitespace bytes became one space.
C8_Witness ==
    /\ n_pc = "done"
    /\ Len(n_mid) >= 2 /\ IsWhitespace(n_mid[1]) /\ IsWhitespace(n_mid[2])
    /\ n_mid[1] # n_mid[2]
    /\ Len(n_out) >= 1 /\ n_out[1] = Ord[" "]
    /\ Len(n_out) < Len(n_mid)

\* C9: canonical equivalence is an equivalence relation: reflexive, symmetric
\* and transitive on the strings compared.
C9_EquivalenceRelation ==
    e_pc = "done" =>
        /\ e_res.aa
        /\ e_res.ab <=> e_res.ba
        /\ (e_res.ab /\ e_res.bc) => e_res.ac

\* Three different strings were found equivalent.
C9_Witness ==
    /\ e_pc = "done"
    /\ e_a # e_b /\ e_b # e_c /\ e_a # e_c
    /\ e_res.ab /\ e_res.ba /\ e_res.bc /\ e_res.ac

\* C10: normalization completes before any pattern is matched, and every
\* regexec call reads the canonical buffer produced for the input, never the
\* raw input, whatever the Zero Trust flag.
C10_ScanReadsCanonicalOnly ==
    \A n \in {obi_uscn_normalize(InitialUscnContext, p_input, p_input_length,
                                 OBI_CANONICAL_BUFFER_SIZE)} :
        /\ p_pc = "normalize" => (~p_regexec.called /\ p_ir = <<>>)
        /\ p_pc \in {"scan", "done"} =>
              /\ p_canonical_input = n.canonical_output
              /\ p_canonical_length = n.output_len
        /\ p_regexec.called =>
              /\ p_pc \in {"scan", "done"}
              /\ p_regexec.subject =
                    SubjectAt(n.canonical_output, n.output_len, p_regexec.pos)

\* Without Zero Trust, a pattern matched on an input that differs from its
\* canonical form.
C10_Witness ==
    /\ ~dfa.zero_trust_enforced
    /\ p_regexec.called /\ p_ir # <<>>
    /\ p_canonical_input # p_input

\* C11: two inputs with the same canonical form are indistinguishable to the
\* engine: admitted on engines with the same registry, or one after the
\* other on one engine, they give the same IR stream (types, contents,
\* source states and node costs, in order) and the same final state.
C11_EquivalentInputsSameIR ==
    (p_pc = "done" /\ p_null = "none") =>
        /\ \A b \in {x \in EngineInputs :
                         EngineCanonical[x] = EngineCanonical[p_input]} :
           \A r \in {obi_dfa_process_input(dfa, b, Len(b))} :
              /\ ~r.diverges
              /\ r.rc = p_rc
              /\ r.ir_output = p_ir_output
              /\ r.current_state = dfa.current_state
        /\ (p_prev.made /\ EngineCanonical[p_prev.input] = EngineCanonical[p_input]) =>
              /\ p_ir_output = p_prev.ir_output
              /\ dfa.current_state = p_prev.current_state

\* "../" admitted after "%2e%2e%2f" on one engine, with a node for it.
C11_Witness ==
    /\ p_pc = "done" /\ p_null = "none" /\ p_prev.made
    /\ p_prev.input = Bytes(<<"%","2","e","%","2","e","%","2","f">>)
    /\ p_input = Bytes(<<".",".","/">>)
    /\ p_ir_output # <<>>
    /\ p_ir_output[1].canonical_content = Bytes(<<".",".","/">>)

\* C12: obi_dfa_process_input terminates: every iteration of the recognition
\* loop moves the scan position forward.
C12_ScanPositionAdvances ==
    [][(p_pc = "scan" /\ p_pc' = "scan") => p_pos' > p_pos]_vars

\* C13: an admission that returns success reports a cost of at most 0.6.
C13_AcceptedWithinBudget ==
    /\ (p_pc = "done" /\ p_null = "none" /\ p_rc = 0) =>
           obi_calculate_governance_cost(dfa) <= warning_threshold
    /\ (g_cost.called /\ p_rc = 0) => g_cost.value <= warning_threshold

\* C14: states are entered along the chain only: a step of the recognition
\* loop that changes the current state moves it from S(k) to S(k+1).
C14_ChainOrderOnly ==
    [][(p_pc = "scan" /\ p_pc' = "scan" /\ p_current_state' # p_current_state)
          => p_current_state' = TransitionTarget(p_current_state)]_vars

\* C15: an admission that returns success ends in an accepting state.
C15_AcceptedInAcceptingState ==
    (p_pc = "done" /\ p_null = "none" /\ p_rc = 0) =>
        dfa.states[dfa.current_state + 1].is_accepting

\* The canonical bytes the nodes of an IR list cover.
RECURSIVE MatchedBytes(_)
MatchedBytes(ir) ==
    IF ir = <<>> THEN 0 ELSE Head(ir).content_length + MatchedBytes(Tail(ir))

\* C16: under Zero Trust no byte is skipped: an admission in which no
\* pattern matched at some position fails.
C16_NoMatchRejected ==
    (/\ p_pc = "done" /\ p_null = "none"
     /\ dfa.zero_trust_enforced
     /\ MatchedBytes(p_ir) < p_canonical_length) => p_rc # 0

\* C17: an admission called with a null buffer or with a zero-length input
\* is rejected and emits no IR.
C17_NullOrEmptyRejected ==
    (/\ p_pc = "done"
     /\ p_null = "input" \/ (p_null = "none" /\ p_input_length = 0)) =>
        (p_rc # 0 /\ p_ir = <<>>)

\* C18: the cost reported after an admission depends on that admission's
\* input alone: the accumulator is zero when an admission starts scanning,
\* and the same input admitted twice in a row reports the same cost twice.
C18_CostResetPerAdmission ==
    /\ (p_pc = "scan" /\ p_pos = 0 /\ ~p_regexec.called) =>
           dfa.governance_cost_accumulator = 0
    /\ (/\ p_pc = "done" /\ p_null = "none" /\ g_cost.called
        /\ p_prev.made /\ p_prev.input = p_input) => g_cost.value = p_prev.cost

\* C19: within an admission the governance cost accumulator never decreases
\* and is never negative, whether a step of the loop matches or skips.
C19_CostNeverDecreases ==
    [][/\ dfa'.governance_cost_accumulator >= dfa.governance_cost_accumulator
       /\ dfa'.governance_cost_accumulator >= 0]_vars

\* An admission that skipped bytes and matched others, with its cost added.
C19_Witness ==
    /\ p_pc = "done" /\ p_null = "none"
    /\ p_ir # <<>>
    /\ MatchedBytes(p_ir) < p_canonical_length
    /\ dfa.governance_cost_accumulator = 100 * MatchedBytes(p_ir)
    /\ dfa.governance_cost_accumulator > 0

\* C20: a match that takes a transition of the matrix adds the transition's
\* cost weight plus 0.1 x match_length to the accumulator.
C20_MatchAddsWeightAndLength ==
    [][(/\ p_pc = "scan" /\ p_pc' = "scan"
        /\ Len(p_ir') = Len(p_ir) + 1
        /\ p_current_state <= 6
        /\ p_current_state' = TransitionTarget(p_current_state))
          => dfa'.governance_cost_accumulator - dfa.governance_cost_accumulator
                = TransitionCostWeight(p_current_state)
                  + 100 * p_ir'[Len(p_ir')].content_length]_vars

\* The costs carried by the nodes of an IR list.
RECURSIVE NodeCosts(_)
NodeCosts(ir) ==
    IF ir = <<>> THEN 0 ELSE Head(ir).governance_cost + NodeCosts(Tail(ir))

\* C21: the cost obi_calculate_governance_cost reports is the cost of all
\* matches so far (those of the earlier admissions and of the last one) plus
\* 0.01 per state, 0.005 per transition and 0.05 under Zero Trust.
C21_ReportedCostIsAccumulatedPlusPrelude ==
    g_cost.called =>
        g_cost.value = (IF p_prev.made THEN p_prev.accumulator ELSE 0)
                       + NodeCosts(p_ir_output)
                       + 10 * dfa.state_count
                       + 5 * dfa.transition_count
                       + (IF dfa.zero_trust_enforced THEN 50 ELSE 0)

\* The cost asked for after the second admission of a Zero Trust engine
\* with three states, both admissions having matched.
C21_Witness ==
    /\ g_cost.called /\ dfa.zero_trust_enforced /\ dfa.state_count = 3
    /\ p_prev.made /\ p_prev.accumulator > 0
    /\ NodeCosts(p_ir_output) > 0

\* C22: at every point of an admission the nodes linked so far lie in the
\* order of their matches: an earlier node covers a strictly earlier segment
\* of the canonical input, which ends before the later one starts.
C22_NodesInPositionOrder ==
    /\ Len(p_spans) = Len(p_ir)
    /\ \A i, j \in 1..Len(p_spans) :
          i < j => /\ p_spans[i].start < p_spans[j].start
                   /\ p_spans[i].end <= p_spans[j].start

\* The lengths of the matches the registered patterns have at offset 0 of a
\* subject.
MatchLengthsAt(engine, subject) ==
    {m.rm_eo - m.rm_so :
        m \in {r \in {regexec(engine.states[k].regex_pattern, subject) :
                         k \in 1..engine.state_count} :
                  r.rc = 0 /\ r.rm_so = 0}}

\* C23: the match taken at a position is the longest one any registered
\* pattern has there.
C23_LongestMatchTaken ==
    \A i \in 1..Len(p_spans) :
        p_spans[i].end - p_spans[i].start
            = Max(MatchLengthsAt(dfa, SubjectAt(p_canonical_input,
                                               p_canonical_length,
                                               p_spans[i].start)))

\* The kinds of the nodes of an IR list, in order.
IrKinds(ir) == [i \in 1..Len(ir) |-> ir[i].type]

\* C24: on a Zero Trust engine that holds the eight states of the serialized
\* specification in their order, the admission of the message of the
\* protocol returns 0 with the IR kinds ProtocolMessage, SecurityContext,
\* SchemaValidation, PayloadBlock, AuditRecord in that order, the engine is
\* left in state 7 and the cost reported is at most the cost threshold.
C24_HappyPath ==
    (p_pc = "done" /\ p_input = HappyMessage /\ dfa.zero_trust_enforced) =>
        /\ p_rc = 0
        /\ IrKinds(p_ir_output)
             = <<"IR_PROTOCOL_MESSAGE", "IR_SECURITY_CONTEXT",
                 "IR_SCHEMA_VALIDATION", "IR_PAYLOAD_BLOCK", "IR_AUDIT_RECORD">>
        /\ dfa.current_state = 7
        /\ obi_calculate_governance_cost(dfa) <= cost_threshold

StatedIrKind ==
    [k \in SemanticPatterns |->
        CASE k = "PATTERN_PROTOCOL_HEADER"  -> "IR_PROTOCOL_MESSAGE"
          [] k = "PATTERN_SECURITY_TOKEN"   -> "IR_SECURITY_CONTEXT"
          [] k = "PATTERN_DATA_PAYLOAD"     -> "IR_PAYLOAD_BLOCK"
          [] k = "PATTERN_SCHEMA_REFERENCE" -> "IR_SCHEMA_VALIDATION"
          [] k = "PATTERN_AUDIT_MARKER"     -> "IR_AUDIT_RECORD"
          [] k \in {"PATTERN_TRANSITION_BOUNDARY", "PATTERN_CANONICAL_DELIMITER",
                    "PATTERN_ERROR_RECOVERY"} -> "IR_ERROR_CONDITION"]

\* C26: the kind of every node linked is the one stated for the kind of the
\* pattern of the state that matched, and the switch gives the stated kind
\* for each of the eight pattern kinds.
C26_IrKindFollowsPatternKind ==
    /\ \A k \in SemanticPatterns : IrNodeType(k) = StatedIrKind[k]
    /\ \A i \in 1..Len(p_ir) :
          /\ i <= Len(p_spans)
          /\ p_ir[i].type
               = StatedIrKind[dfa.states[p_spans[i].state + 1].pattern_type]

\* An admission has returned a payload block and an error condition, the
\* second from a structural separator.
C26_Witness ==
    /\ p_pc = "done" /\ p_rc = 0
    /\ \E i, j \in 1..Len(p_ir_output) :
          /\ p_ir_output[i].type = "IR_PAYLOAD_BLOCK"
          /\ p_ir_output[j].type = "IR_ERROR_CONDITION"
          /\ dfa.states[p_spans[j].state + 1].pattern_type
               = "PATTERN_CANONICAL_DELIMITER"

\* C27: whatever calls of obi_dfa_initialize and obi_dfa_register_pattern
\* are made, the engine holds at most OBI_MAX_STATES states and at most
\* OBI_MAX_TRANSITIONS transitions, and a registration attempted on an
\* engine that holds OBI_MAX_STATES states returns -1 and leaves the engine
\* as it was.
C27_RegistryBounded ==
    [][/\ dfa'.state_count <= OBI_MAX_STATES
       /\ Len(dfa'.states) = dfa'.state_count
       /\ dfa'.transition_count <= OBI_MAX_TRANSITIONS
       /\ \A i \in 1..dfa'.state_count :
             dfa'.states[i].transition_count <= OBI_MAX_TRANSITIONS
       /\ (RegisterBuiltIn /\ dfa.state_count = OBI_MAX_STATES) =>
             (g_register'.rc = -1 /\ dfa' = dfa)
       /\ (RegisterBuiltIn /\ dfa.state_count < OBI_MAX_STATES) =>
             (g_register'.rc = dfa.state_count
              /\ dfa'.state_count = dfa.state_count + 1)]_vars

\* A registration was attempted on a full registry and failed.
C27_Witness ==
    /\ g_register.called /\ g_register.rc = -1
    /\ g_register.count_before = OBI_MAX_STATES
    /\ dfa.state_count = OBI_MAX_STATES
    /\ Len(dfa.states) = OBI_MAX_STATES

\* C28: in every engine reached, every state below state_count is accepting
\* exactly when the kind of its pattern is DataPayload or AuditMarker, the
\* state 0 that obi_dfa_initialize creates included.
C28_AcceptingIffPayloadOrAudit ==
    \A i \in 1..dfa.state_count :
        dfa.states[i].is_accepting
            <=> dfa.states[i].pattern_type
                    \in {"PATTERN_DATA_PAYLOAD", "PATTERN_AUDIT_MARKER"}

\* An engine that holds state 0 and the seven states registered after it,
\* with an accepting payload state, an accepting audit state and states of
\* the other kinds that are not accepting.
C28_Witness ==
    /\ dfa.state_count = 1 + Len(BuiltInStates)
    /\ ~dfa.states[1].is_accepting
    /\ dfa.states[7].pattern_type = "PATTERN_DATA_PAYLOAD"
    /\ dfa.states[7].is_accepting
    /\ dfa.states[8].pattern_type = "PATTERN_AUDIT_MARKER"
    /\ dfa.states[8].is_accepting
    /\ \E i \in 2..6 : ~dfa.states[i].is_accepting

C30_TestInitializationPasses ==
    (i_init.handle_is_null /\ i_init.zero_trust_mode) => i_init.rc # -1

\* The part of an engine that holds the pattern registry and the
\* configuration: all but current_state, the cost accumulator and the
\* scratch buffer of the USCN context.
PatternRegistry(engine) ==
    [states |-> engine.states,
     state_count |-> engine.state_count,
     transition_count |-> engine.transition_count,
     zero_trust_enforced |-> engine.zero_trust_enforced,
     case_sensitive |-> engine.uscn_context.case_sensitive,
     whitespace_normalize |-> engine.uscn_context.whitespace_normalize,
     encoding_normalize |-> engine.uscn_context.encoding_normalize]

\* C35: no step of obi_dfa_process_input changes the pattern registry or the
\* configuration of the engine: the states, the counts, the Zero Trust flag
\* and the flags of the USCN context are after the step what they were
\* before it.
C35_AdmissionKeepsRegistry ==
    [][(\/ ProcessInputCall \/ ProcessInputAgain \/ ProcessInputNullArgument
        \/ ProcessInputNormalize \/ ProcessInputScanStep \/ ProcessInputReturn)
          => PatternRegistry(dfa') = PatternRegistry(dfa)]_vars

\* An admission has returned on an engine with registered patterns, having
\* changed current_state, the accumulator and the scratch buffer.
C35_Witness ==
    /\ p_pc = "done" /\ p_null = "none" /\ p_rc = 0
    /\ dfa.state_count = 3
    /\ dfa.current_state # 0
    /\ dfa.governance_cost_accumulator > 0
    /\ dfa.uscn_context.buffer_used > 0

\* C36: every admission starts its scan in state 0, whatever current_state
\* the admission before left in the engine: the scan of a second admission
\* is in state 0 until a pattern matches, its first node has source state 0,
\* and the IR returned is the IR of the same input on an engine with the
\* same registry whose current_state is 0.
C36_AdmissionStartsInStateZero ==
    /\ (p_pc = "scan" /\ p_spans = <<>>) => p_current_state = 0
    /\ (p_pc \in {"scan", "done"} /\ p_ir # <<>>) => p_ir[1].source_state = 0
    /\ (p_pc = "done" /\ p_null = "none" /\ p_prev.made) =>
          p_ir_output
            = obi_dfa_process_input([dfa EXCEPT !.current_state = 0],
                                    p_input, p_input_length).ir_output

\* A second admission has returned nodes on an engine the first admission
\* left in a state other than 0.
C36_Witness ==
    /\ p_pc = "done" /\ p_null = "none" /\ p_prev.made
    /\ p_prev.current_state # 0
    /\ p_ir_output # <<>>

\* C38: the source state of a node is the state the engine was in before
\* the match (0 for the first node, the state of the match before for the
\* others), its kind is the one of the pattern of the state that matched,
\* and the current state after a match is the state that matched.
C38_SourceStateIsStateBeforeMatch ==
    (p_pc \in {"scan", "done"} /\ Len(p_spans) = Len(p_ir)) =>
        /\ \A i \in 1..Len(p_ir) :
              /\ p_ir[i].source_state
                   = (IF i = 1 THEN 0 ELSE p_spans[i - 1].state)
              /\ p_ir[i].type
                   = IrNodeType(dfa.states[p_spans[i].state + 1].pattern_type)
        /\ p_current_state
             = (IF p_spans = <<>> THEN 0 ELSE p_spans[Len(p_spans)].state)
        /\ (p_pc = "done" /\ p_null = "none") => dfa.current_state = p_current_state

\* An admission has returned two nodes, the second matched by another state
\* than the first.
C38_Witness ==
    /\ p_pc = "done" /\ p_null = "none" /\ Len(p_ir_output) >= 2
    /\ p_ir_output[2].source_state # 0
    /\ p_spans[2].state # p_spans[1].state

\* The canonical bytes the matches of an admission cover.
RECURSIVE SpanBytes(_)
SpanBytes(spans) ==
    IF spans = <<>>
    THEN 0
    ELSE (Head(spans).end - Head(spans).start) + SpanBytes(Tail(spans))

\* C39: when an admission has returned, the amount the accumulator grew by
\* during it is the sum of the costs of the nodes returned, which is 0.1 for
\* every canonical byte a match covers; there is one node per match, and the
\* bytes skipped add no cost and no node.
C39_GrowthIsSumOfNodeCosts ==
    (p_pc = "done" /\ p_null = "none" /\ p_rc = 0) =>
        /\ dfa.governance_cost_accumulator
             - (IF p_prev.made THEN p_prev.accumulator ELSE 0)
             = NodeCosts(p_ir_output)
        /\ NodeCosts(p_ir_output) = 100 * SpanBytes(p_spans)
        /\ Len(p_ir_output) = Len(p_spans)
        /\ MatchedBytes(p_ir_output) = SpanBytes(p_spans)
        /\ SpanBytes(p_spans) <= p_canonical_length

\* An admission has returned nodes that cover some of the canonical bytes,
\* the others having been skipped.
C39_Witness ==
    /\ p_pc = "done" /\ p_null = "none" /\ p_rc = 0
    /\ p_ir_output # <<>>
    /\ SpanBytes(p_spans) < p_canonical_length
    /\ dfa.governance_cost_accumulator > 0

\* C40: with any capacity C >= 0 passed in *output_len, every byte
\* obi_uscn_normalize writes to canonical_output, the terminating NUL
\* included, lies within canonical_output[0 .. C - 1].
C40_WritesWithinCapacity ==
    /\ n_pc \in {"phase1", "phase2", "phase3", "store", "done"} =>
          (Len(n_out) <= n_max_output /\ Len(n_mid) <= n_max_output)
    /\ n_pc = "done" => n_output_len < n_max_output

\* C32: a call of protocol-state-validation_process on the initialized
\* feature returns SUCCESS when the buffer is non-null and the length is not
\* 0, ERROR_INVALID_INPUT when the buffer is null or the length is 0, and
\* leaves the feature initialized.
C32_ProcessValidatesItsInput ==
    \A i \in 1..Len(f_calls) :
        (f_calls[i].op = "process" /\ f_calls[i].before) =>
            /\ f_calls[i].result
                 = (IF f_calls[i].data_is_null \/ f_calls[i].length = 0
                    THEN "ERROR_INVALID_INPUT" ELSE "SUCCESS")
            /\ f_calls[i].after

\* After an init, process was called on a buffer of some bytes, on a
\* non-null buffer with length 0 and on NULL with a length.
C32_Witness ==
    /\ Len(f_calls) = 3
    /\ f_calls[1].op = "init"
    /\ \E i, j \in 2..3 :
          /\ f_calls[i].op = "process" /\ f_calls[i].result = "SUCCESS"
          /\ f_calls[i].length > 0 /\ ~f_calls[i].data_is_null
          /\ f_calls[j].op = "process"
          /\ f_calls[j].result = "ERROR_INVALID_INPUT"
          /\ (f_calls[j].data_is_null \/ f_calls[j].length = 0)
    /\ protocol_state_validation_initialized

\* C33: every call of protocol-state-validation_init returns SUCCESS and
\* leaves the feature initialized, whether the feature was uninitialized,
\* initialized or cleaned up before.
C33_InitAlwaysSucceeds ==
    \A i \in 1..Len(f_calls) :
        f_calls[i].op = "init" =>
            (f_calls[i].result = "SUCCESS" /\ f_calls[i].after)

\* init, cleanup, init: both inits succeeded, the second from the state
\* the cleanup left.
C33_Witness ==
    /\ Len(f_calls) = 3
    /\ f_calls[1].op = "init" /\ f_calls[1].result = "SUCCESS"
    /\ f_calls[2].op = "cleanup" /\ ~f_calls[2].after
    /\ f_calls[3].op = "init" /\ f_calls[3].result = "SUCCESS"
    /\ ~f_calls[3].before
    /\ protocol_state_validation_initialized

\* C34: after any sequence of obi_topology_init, obi_topology_get_context,
\* obi_topology_cleanup, obi_buffer_init and obi_buffer_cleanup calls the
\* buffer layer is initialized only if the topology layer is initialized:
\* the buffer layer never holds the topology context of a topology layer
\* that has been cleaned up.
C34_BufferOnlyAboveTopology ==
    /\ buffer.buffer_initialized => topology.topology_initialized
    /\ buffer.topology_context # NULL => topology.topology_initialized

LayersUp == <<"protocol_up", "topology_up", "buffer_up">>
LayersDown == <<"protocol_down", "topology_down", "buffer_down">>

\* The n layers brought up in order and then taken down, the latest first.
UpThenDown(n) ==
    SubSeq(LayersUp, 1, n) \o [i \in 1..n |-> LayersDown[n + 1 - i]]

\* C37: the command-line interface brings the layers up in the order
\* protocol, topology, buffer.  When the initialization of a layer fails,
\* the layers brought up before it have been taken down, the latest first,
\* when initialize_layers returns its error.  On every path of main on which
\* initialize_layers succeeded, cleanup_layers has taken down buffer, then
\* topology, then protocol when main returns.  For the version, help and
\* unknown categories, and without a category, no layer is brought up.
C37_LayersUpAndDownInOrder ==
    /\ \E n \in 0..3 : \E k \in 0..n :
          m_log = SubSeq(LayersUp, 1, n) \o SubSeq(UpThenDown(n), n + 1, n + k)
    /\ m_pc = "returned" /\ m_initialize = "OBIBUF_SUCCESS" =>
          /\ m_log = UpThenDown(3)
          /\ ~topology.topology_initialized /\ ~buffer.buffer_initialized
    /\ m_pc = "returned" /\ m_initialize = "OBIBUF_ERROR" =>
          /\ \E n \in 0..2 : m_log = UpThenDown(n)
          /\ ~topology.topology_initialized /\ ~buffer.buffer_initialized
    /\ m_pc = "returned" /\ m_initialize = "none" =>
          /\ m_argc < 2 \/ m_category \in {"CMD_CATEGORY_VERSION", "CMD_CATEGORY_HELP", "CMD_CATEGORY_UNKNOWN"}
          /\ m_log = <<>> /\ m_ctx = ZeroCliContext
          /\ topology = TopologyStaticsAtStart /\ buffer = BufferStaticsAtStart
    /\ m_pc \in {"dispatch", "cleanup"} =>
          /\ m_initialize = "OBIBUF_SUCCESS" /\ m_log = LayersUp
          /\ topology.topology_initialized /\ buffer.buffer_initialized
    /\ m_pc = "initialize_topology" =>
          \A failure \in {"OBI_TOPOLOGY_ERROR_INVALID_CONFIG", "OBI_TOPOLOGY_ERROR_GOVERNANCE_VIOLATION", "OBI_TOPOLOGY_ERROR_PROTOCOL_DEPENDENCY"} :
             LET r == InitializeLayersTopology(CliWorld, [result |-> failure, topology |-> topology])
             IN  r.result = "OBIBUF_ERROR" /\ r.w.log = UpThenDown(1)
    /\ m_pc = "initialize_buffer" =>
          \A failure \in {"OBI_BUFFER_ERROR_INVALID_SIZE", "OBI_BUFFER_ERROR_VALIDATION_FAILED", "OBI_BUFFER_ERROR_TOPOLOGY_DEPENDENCY"} :
             LET r == InitializeLayersBuffer(CliWorld, [result |-> failure, buffer |-> buffer])
             IN  /\ r.result = "OBIBUF_ERROR" /\ r.w.log = UpThenDown(2)
                 /\ ~r.w.topology.topology_initialized

\* A run on a layer category has returned: the three layers came up, the
\* handler failed, and the layers were taken down before main returned.
C37_Witness ==
    /\ m_pc = "returned" /\ m_category = "CMD_CATEGORY_TOPOLOGY"
    /\ m_initialize = "OBIBUF_SUCCESS" /\ m_result = "OBIBUF_ERROR"
    /\ m_argc = 3 /\ Len(m_log) = 6

\* What a thread's call gives when it runs alone on the engine the thread
\* started with.
Alone(t) == obi_dfa_process_input(t_frame[t].dfa0, t_frame[t].input, t_frame[t].input_length)

\* C31: admissions running concurrently on two distinct engines do not
\* interfere: however their steps interleave, when a thread's call has
\* returned, its IR stream, the final state of its engine and the cost its
\* engine accumulated are those of the same call running alone.
C31_EnginesDoNotInterfere ==
    \A t \in Threads :
       t_frame[t].pc = "done" =>
          /\ ~Alone(t).diverges
          /\ t_frame[t].rc = Alone(t).rc
          /\ t_frame[t].ir_output = Alone(t).ir_output
          /\ t_dfa[t].current_state = Alone(t).current_state
          /\ t_dfa[t].governance_cost_accumulator = t_frame[t].dfa0.governance_cost_accumulator + Alone(t).cost
          /\ t_dfa[t].states = t_frame[t].dfa0.states

\* Both calls have returned, each ran while the other was inside its call,
\* and the two produced different IR streams from different inputs.
C31_Witness ==
    /\ \A t \in Threads : t_frame[t].pc = "done" /\ t_frame[t].overlapped
    /\ t_frame[1].input # t_frame[2].input
    /\ t_frame[1].ir_output # t_frame[2].ir_output
    /\ t_frame[1].ir_output # <<>> /\ t_frame[2].ir_output # <<>>
====
